---- MODULE Spec2Model ----
(***************************************************************************)
(* A model of the skytracer renderer: the tile partition and the parallel  *)
(* render loop (renderer.cxx), the majorant cache of the atmosphere        *)
(* (atmosphere.hxx), the molecular and aerosol coefficients                *)
(* (atmosphere.cxx, aerosol.hxx) and the scene intersection                *)
(* (integrator.cxx).                                                       *)
(***************************************************************************)
EXTENDS Integers, Sequences, FiniteSets, TLC

VARIABLES
    pc,        \* which part of the program the model is in
    cfg,       \* Renderer: _image_width, _image_height, _tile_width, _tile_height
    tiles,     \* Renderer::_tiles
    atmospheres,          \* the Atmosphere instances of the process
    prev_wl,              \* static float prev_wl of get_max_extinction
    prev_max_extinction,  \* static float prev_max_extinction of get_max_extinction
    gme,       \* per thread: its call of get_max_extinction in progress
    query,     \* the coefficients last asked of the atmosphere
    isect,     \* the ray given to scene_intersect and what it returned
    tasks,     \* render: the kernel invocations, one per range of tile indices
    buffer,    \* Renderer::_buffer, with the history of writes of each element
    progress_count,       \* size_t progress_count of render
    progress_mutex,       \* std::mutex progress_mutex: 0, or the task holding it
    scene,     \* Renderer::_scene while create_scene builds it
    lut,       \* the table and key given to lut_lerp and what it returned
    track,     \* a call of transmittance or sample_interaction and its result
    li         \* a call of Integrator::Li: the path and its radiance so far

vars == <<pc, cfg, tiles, atmospheres, prev_wl, prev_max_extinction, gme, query,
          isect, tasks, buffer, progress_count, progress_mutex, scene, lut,
          track, li>>

\* the variables of the scene intersection and of the render loop
geomVars == <<isect>>
workerVars == <<tasks, buffer, progress_count, progress_mutex>>
callVars == <<scene, lut, track, li>>

\* no ray has been given to scene_intersect
GeomOff == isect = [phase |-> "off"]

\* render has not been called
WorkersOff ==
    /\ tasks = <<>>
    /\ buffer = <<>>
    /\ progress_count = 0
    /\ progress_mutex = 0

\* no scene is being built
SceneOff == scene = [phase |-> "off"]

\* lut_lerp, the tracking loops and Li have not been called
LutOff == lut = [phase |-> "off"]
TrackOff == track = [phase |-> "off"]
LiOff == li = [phase |-> "off"]

CallsOff == SceneOff /\ LutOff /\ TrackOff /\ LiOff

(***************************************************************************)
(* Bounds of the model.                                                    *)
(***************************************************************************)
\* largest image and tile dimension of the tile-partition specification
MaxDim == 5

(***************************************************************************)
(* Renderer::prepare_tiles  (renderer.cxx:173-193)                         *)
(***************************************************************************)
\* struct Tile
Tile(x0, x1, y0, y1) == [x0 |-> x0, x1 |-> x1, y0 |-> y0, y1 |-> y1]

\* int x_tiles = (_image_width + _tile_width - 1) / _tile_width;
TileCount(image_size, tile_size) == (image_size + tile_size - 1) \div tile_size

\* a tile edge that forgets to clip the last column/row to the image
TileEndUnclipped(i, n_tiles, image_size, tile_size) == i * tile_size + tile_size

\* int x1 = (i == x_tiles - 1) ? _image_width : x0 + _tile_width;
TileEnd(i, n_tiles, image_size, tile_size) ==
    IF i = n_tiles - 1 THEN image_size ELSE i * tile_size + tile_size

\* the tile pushed by iteration (j, i) of the two loops
TileAt(c, j, i) ==
    Tile(i * c.tile_width,
         TileEnd(i, TileCount(c.image_width, c.tile_width), c.image_width, c.tile_width),
         j * c.tile_height,
         TileEnd(j, TileCount(c.image_height, c.tile_height), c.image_height, c.tile_height))

\* the whole of prepare_tiles: rows outermost, one push_back per (j, i)
PrepareTiles(c) ==
    LET x_tiles == TileCount(c.image_width, c.tile_width)
        y_tiles == TileCount(c.image_height, c.tile_height)
    IN  [k \in 1..(x_tiles * y_tiles) |->
            TileAt(c, (k - 1) \div x_tiles, (k - 1) % x_tiles)]

Config(w, h, tw, th) ==
    [image_width |-> w, image_height |-> h, tile_width |-> tw, tile_height |-> th]

(***************************************************************************)
(* Specification SpecTiles: the constructor's call of prepare_tiles on     *)
(* every configuration of positive sizes up to MaxDim.                     *)
(***************************************************************************)
InitTiles ==
    /\ pc = "construct"
    /\ \E w \in 1..MaxDim, h \in 1..MaxDim, tw \in 1..MaxDim, th \in 1..MaxDim :
           cfg = Config(w, h, tw, th)
    /\ tiles = <<>>
    /\ atmospheres = <<>>
    /\ prev_wl = 0
    /\ prev_max_extinction = 0
    /\ gme = <<>>
    /\ query = [phase |-> "none"]
    /\ GeomOff
    /\ WorkersOff
    /\ CallsOff

prepare_tiles ==
    /\ pc = "construct"
    /\ tiles' = PrepareTiles(cfg)
    /\ pc' = "prepared"
    /\ UNCHANGED <<cfg, atmospheres, prev_wl, prev_max_extinction, gme, query>>
    /\ UNCHANGED <<geomVars, workerVars, callVars>>

NextTiles == prepare_tiles

SpecTiles == InitTiles /\ [][NextTiles]_vars

(***************************************************************************)
(* C3  prepare_tiles partitions the image.                                 *)
(***************************************************************************)
InTile(t, x, y) == t.x0 <= x /\ x < t.x1 /\ t.y0 <= y /\ y < t.y1

\* ceil(a / b) for positive a, b, stated without the code's formula
Ceil(a, b) == CHOOSE q \in 1..a : (q - 1) * b < a /\ a <= q * b

\* C3: once prepare_tiles has run, every pixel of the image lies in exactly
\* one tile; every tile is non-empty and inside the image; every tile has the
\* configured size except in the last column / row, where it ends at the image
\* edge and is no larger; and there are ceil(w/tw) * ceil(h/th) tiles.
C3_TilesPartition ==
    pc = "prepared" =>
        LET w == cfg.image_width
            h == cfg.image_height
            xt == Ceil(w, cfg.tile_width)
            yt == Ceil(h, cfg.tile_height)
        IN  /\ Len(tiles) = xt * yt
            /\ \A x \in 0..(w - 1), y \in 0..(h - 1) :
                   Cardinality({k \in 1..Len(tiles) : InTile(tiles[k], x, y)}) = 1
            /\ \A k \in 1..Len(tiles) :
                   LET t == tiles[k]
                       i == (k - 1) % xt
                       j == (k - 1) \div xt
                   IN  /\ 0 <= t.x0 /\ t.x0 < t.x1 /\ t.x1 <= w
                       /\ 0 <= t.y0 /\ t.y0 < t.y1 /\ t.y1 <= h
                       /\ t.x0 = i * cfg.tile_width
                       /\ t.y0 = j * cfg.tile_height
                       /\ IF i < xt - 1 THEN t.x1 - t.x0 = cfg.tile_width
                          ELSE t.x1 = w /\ t.x1 - t.x0 <= cfg.tile_width
                       /\ IF j < yt - 1 THEN t.y1 - t.y0 = cfg.tile_height
                          ELSE t.y1 = h /\ t.y1 - t.y0 <= cfg.tile_height

\* a prepared image whose last column and last row are both clipped and that
\* has more than one tile in each direction
C3_Witness ==
    /\ pc = "prepared"
    /\ cfg.image_width % cfg.tile_width # 0
    /\ cfg.image_height % cfg.tile_height # 0
    /\ cfg.image_width > cfg.tile_width
    /\ cfg.image_height > cfg.tile_height
    /\ Len(tiles) >= 4

(***************************************************************************)
(* Fixed-point arithmetic.  The program computes in 32-bit floats; the     *)
(* model computes in integers of a stated unit, and every product that is  *)
(* rescaled is rounded down once, where the float product is rounded once. *)
(***************************************************************************)
\* floor(a * b / c) for a, b >= 0 and c > 0, without forming a * b
MulDiv(a, b, c) == (a \div c) * b + ((a % c) * b) \div c

\* sqrtf of a number below 2^31, rounded down: the number of multiples of
\* 216 whose square is not above n, then the number of further units
sqrtf(n) ==
    LET coarse == 216 * Cardinality({c \in 1..214 : (c * 216) * (c * 216) <= n})
    IN  coarse + Cardinality({f \in 1..215 :
                                 /\ coarse + f <= 46340
                                 /\ (coarse + f) * (coarse + f) <= n})

(***************************************************************************)
(* lut_lerp  (lut.cxx:27-51)                                               *)
(***************************************************************************)
\* std::lower_bound: the first element whose key is greater or equal than x
\* (every value of the tables is above numeric_limits<float>::min(), so the
\* pair (x, min) is ordered by the key alone)
RECURSIVE LowerBoundBetween(_, _, _, _)
LowerBoundBetween(table, x, first, last) ==
    IF first = last THEN first
    ELSE LET middle == (first + last) \div 2
         IN  IF table[middle][1] < x
             THEN LowerBoundBetween(table, x, middle + 1, last)
             ELSE LowerBoundBetween(table, x, first, middle)

LowerBound(table, x) == LowerBoundBetween(table, x, 1, Len(table))

lut_lerp(table, x) ==
    IF x > table[Len(table)][1] THEN table[Len(table)][2]
    ELSE IF x < table[1][1] THEN table[1][2]
    ELSE LET it == LowerBound(table, x)
         IN  IF it = 1 THEN table[it][2]
             ELSE LET it2 == it - 1
                  IN  table[it2][2]
                      + ((table[it][2] - table[it2][2]) * (x - table[it2][1]))
                            \div (table[it][1] - table[it2][1])

(***************************************************************************)
(* The tables of atmosphere.cxx, values scaled to integers.                *)
(***************************************************************************)
\* key: wavelength in nm; value: Rayleigh volume scattering coefficient of standard
\* air in units of 1e-6 km^-1
\* (rayleigh_volume_scattering_lut, atmosphere.cxx:40-121)
rayleigh_volume_scattering_lut ==
    <<
       <<200, 920200>>, <<210, 722500>>, <<220, 578100>>, <<230, 469100>>, <<240, 385900>>,
       <<250, 320800>>, <<260, 269000>>, <<270, 227700>>, <<280, 194000>>, <<290, 166500>>,
       <<300, 143700>>, <<310, 124900>>, <<320, 109000>>, <<330, 95570>>, <<340, 84250>>,
       <<350, 74500>>, <<360, 66190>>, <<370, 59010>>, <<380, 52750>>, <<390, 47340>>,
       <<400, 42610>>, <<410, 38450>>, <<420, 34790>>, <<430, 31560>>, <<440, 28700>>,
       <<450, 26160>>, <<460, 23890>>, <<470, 21870>>, <<480, 20050>>, <<490, 18420>>,
       <<500, 16960>>, <<510, 15640>>, <<520, 14440>>, <<530, 13360>>, <<540, 12380>>,
       <<550, 11490>>, <<560, 10670>>, <<570, 9927>>, <<580, 9247>>, <<590, 8624>>,
       <<600, 8053>>, <<610, 7530>>, <<620, 7049>>, <<630, 6605>>, <<640, 6196>>,
       <<650, 5819>>, <<660, 5470>>, <<670, 5146>>, <<680, 4847>>, <<690, 4568>>,
       <<700, 4310>>, <<710, 4069>>, <<720, 3846>>, <<730, 3637>>, <<740, 3442>>,
       <<750, 3261>>, <<760, 3090>>, <<770, 2931>>, <<780, 2781>>, <<790, 2641>>,
       <<800, 2510>>, <<900, 1561>>, <<1000, 1022>>, <<1100, 696>>, <<1200, 491>>,
       <<1300, 356>>, <<1400, 264>>, <<1500, 200>>, <<1600, 155>>, <<1700, 121>>,
       <<1800, 97>>, <<1900, 78>>, <<2000, 63>>, <<2200, 43>>, <<2400, 30>>,
       <<2600, 22>>, <<2800, 16>>, <<3000, 12>>, <<3500, 7>>, <<4000, 4>>
    >>

\* key: height in m (the table is in km); value: temperature in units of 0.01 K
\* (standard_atmosphere_temperature_lut, atmosphere.cxx:128-216)
standard_atmosphere_temperature_lut ==
    <<
       <<0, 28815>>, <<1000, 28165>>, <<2000, 27515>>, <<3000, 26865>>, <<4000, 26215>>,
       <<5000, 25565>>, <<6000, 24915>>, <<7000, 24265>>, <<8000, 23615>>, <<9000, 22965>>,
       <<10000, 22315>>, <<11000, 21665>>, <<12000, 21665>>, <<13000, 21665>>, <<14000, 21665>>,
       <<15000, 21665>>, <<16000, 21665>>, <<17000, 21665>>, <<18000, 21665>>, <<19000, 21665>>,
       <<20000, 21665>>, <<21000, 21765>>, <<22000, 21865>>, <<23000, 21965>>, <<24000, 22065>>,
       <<25000, 22165>>, <<26000, 22265>>, <<27000, 22365>>, <<28000, 22465>>, <<29000, 22565>>,
       <<30000, 22665>>, <<31000, 22765>>, <<32000, 22865>>, <<33000, 23145>>, <<34000, 23425>>,
       <<35000, 23705>>, <<36000, 23985>>, <<37000, 24265>>, <<38000, 24545>>, <<39000, 24825>>,
       <<40000, 25105>>, <<41000, 25385>>, <<42000, 25665>>, <<43000, 25945>>, <<44000, 26225>>,
       <<45000, 26505>>, <<46000, 26785>>, <<47000, 27065>>, <<48000, 27065>>, <<49000, 27065>>,
       <<50000, 27065>>, <<51000, 27065>>, <<52000, 26785>>, <<53000, 26505>>, <<54000, 26225>>,
       <<55000, 25945>>, <<56000, 25665>>, <<57000, 25385>>, <<58000, 25105>>, <<59000, 24825>>,
       <<60000, 24545>>, <<61000, 24265>>, <<62000, 23985>>, <<63000, 23705>>, <<64000, 23425>>,
       <<65000, 23145>>, <<66000, 22865>>, <<67000, 22585>>, <<68000, 22305>>, <<69000, 22025>>,
       <<70000, 21745>>, <<71000, 21465>>, <<72000, 21265>>, <<73000, 21065>>, <<74000, 20865>>,
       <<75000, 20665>>, <<76000, 20465>>, <<77000, 20265>>, <<78000, 20065>>, <<79000, 19865>>,
       <<80000, 19665>>, <<81000, 19465>>, <<82000, 19265>>, <<83000, 19065>>, <<84000, 18865>>,
       <<85000, 18695>>, <<86000, 18695>>
    >>

\* key: height in m (the table is in km); value: pressure in units of 0.1 Pa
\* (standard_atmosphere_pressure_lut, atmosphere.cxx:223-311)
standard_atmosphere_pressure_lut ==
    <<
       <<0, 1013250>>, <<1000, 898746>>, <<2000, 794952>>, <<3000, 701085>>, <<4000, 616402>>,
       <<5000, 540199>>, <<6000, 471810>>, <<7000, 410607>>, <<8000, 355998>>, <<9000, 307425>>,
       <<10000, 264363>>, <<11000, 226321>>, <<12000, 193304>>, <<13000, 165104>>, <<14000, 141018>>,
       <<15000, 120446>>, <<16000, 102875>>, <<17000, 87867>>, <<18000, 75048>>, <<19000, 64100>>,
       <<20000, 54749>>, <<21000, 46779>>, <<22000, 39998>>, <<23000, 34224>>, <<24000, 29305>>,
       <<25000, 25110>>, <<26000, 21531>>, <<27000, 18475>>, <<28000, 15863>>, <<29000, 13630>>,
       <<30000, 11719>>, <<31000, 10082>>, <<32000, 8680>>, <<33000, 7482>>, <<34000, 6461>>,
       <<35000, 5589>>, <<36000, 4843>>, <<37000, 4204>>, <<38000, 3655>>, <<39000, 3182>>,
       <<40000, 2775>>, <<41000, 2424>>, <<42000, 2120>>, <<43000, 1857>>, <<44000, 1629>>,
       <<45000, 1431>>, <<46000, 1259>>, <<47000, 1109>>, <<48000, 978>>, <<49000, 862>>,
       <<50000, 759>>, <<51000, 669>>, <<52000, 590>>, <<53000, 519>>, <<54000, 456>>,
       <<55000, 400>>, <<56000, 350>>, <<57000, 306>>, <<58000, 268>>, <<59000, 233>>,
       <<60000, 203>>, <<61000, 177>>, <<62000, 153>>, <<63000, 133>>, <<64000, 115>>,
       <<65000, 99>>, <<66000, 86>>, <<67000, 74>>, <<68000, 63>>, <<69000, 54>>,
       <<70000, 46>>, <<71000, 40>>, <<72000, 34>>, <<73000, 29>>, <<74000, 24>>,
       <<75000, 21>>, <<76000, 18>>, <<77000, 15>>, <<78000, 13>>, <<79000, 11>>,
       <<80000, 9>>, <<81000, 7>>, <<82000, 6>>, <<83000, 5>>, <<84000, 4>>,
       <<85000, 4>>, <<86000, 3>>
    >>

\* key: wavelength in nm; value: ozone absorption cross-section in units of
\* 1e-24 cm^2
\* (ozone_cross_section_lut, atmosphere.cxx:317-350)
ozone_cross_section_lut ==
    <<
       <<244, 9460000>>, <<248, 10510000>>, <<253, 11200000>>, <<257, 11070000>>, <<289, 1510000>>,
       <<296, 611000>>, <<302, 296000>>, <<365, 49>>, <<405, 15>>, <<455, 206>>,
       <<543, 3080>>, <<576, 4700>>, <<594, 4630>>, <<604, 5100>>, <<611, 4540>>,
       <<632, 3360>>, <<748, 438>>, <<755, 322>>, <<760, 277>>, <<765, 253>>,
       <<770, 249>>, <<779, 315>>, <<802, 145>>, <<817, 220>>, <<853, 146>>,
       <<877, 38>>, <<889, 51>>, <<898, 64>>, <<933, 16>>, <<944, 42>>,
       <<991, 41>>, <<1046, 8>>
    >>

\* Monthly mean total ozone in Dobson units, January first
\* (ozone_mean_monthly_dobson, atmosphere.cxx:357-370)
ozone_mean_monthly_dobson ==
    <<347, 370, 381, 384, 372, 352, 333, 317, 298, 285, 290, 315>>

\* expf(-x): key x in thousandths, value in units of 1e-5; piecewise linear
\* between the tabulated points, 0 from x = 14 on
expf_neg_lut ==
    <<
       <<0, 100000>>, <<100, 90484>>, <<200, 81873>>, <<300, 74082>>, <<400, 67032>>,
       <<500, 60653>>, <<600, 54881>>, <<700, 49659>>, <<800, 44933>>, <<900, 40657>>,
       <<1000, 36788>>, <<1500, 22313>>, <<2000, 13534>>, <<2500, 8208>>, <<3000, 4979>>,
       <<4000, 1832>>, <<5000, 674>>, <<6000, 248>>, <<8000, 34>>, <<10000, 5>>,
       <<14000, 0>>
    >>

(***************************************************************************)
(* Aerosol  (aerosol.hxx:27-63) and its variants (aerosol.hxx:65-145).     *)
(* Units: densities in 1e16, height_scale in m, turbidity a whole number;  *)
(* the cross-sections are in the unit that makes the coefficients come out *)
(* in 1e-9 m^-1.  background_density / base_density (2e6 / 1e16 or more)   *)
(* is below 1e-5 and is 0 in the model.                                    *)
(***************************************************************************)
NoAerosol ==
    [present |-> FALSE, turbidity |-> 0, base_density |-> 0,
     background_divided_by_base_density |-> 0, height_scale |-> 1,
     cross_sections |-> [absorption |-> <<<<0, 0>>>>, scattering |-> <<<<0, 0>>>>]]

\* Aerosol::Aerosol(turbidity, base_density, background_density, height_scale)
Aerosol(turbidity, base_density, background_density, height_scale, cs) ==
    [present |-> TRUE, turbidity |-> turbidity, base_density |-> base_density,
     background_divided_by_base_density |->
         MulDiv(background_density, 100000, base_density),
     height_scale |-> height_scale,
     cross_sections |-> cs]

\* The variants that use Aerosol::get_density.  The ninth name of the
\* constructor of GuimeraAtmosphere, "background" (BackgroundAerosol), has a
\* get_density of its own in aerosol.cxx, which is not part of the sources at
\* hand: the model builds no atmosphere of that name.
\* the variants' constructors: base density (1e16) and height scale (m); the
\* background density 2e6 is 0 in units of 1e16
AerosolTypes ==
    {"desert-dust", "maritime-clean", "maritime-mineral", "polar-antarctic",
     "polar-artic", "remote-continental", "rural", "urban"}

AerosolVariant(aerosol_type, turbidity, cs) ==
    CASE aerosol_type = "desert-dust"        -> Aerosol(turbidity, 187, 0, 2000, cs)
      [] aerosol_type = "maritime-clean"     -> Aerosol(turbidity, 20, 0, 900, cs)
      [] aerosol_type = "maritime-mineral"   -> Aerosol(turbidity, 20, 0, 2000, cs)
      [] aerosol_type = "polar-antarctic"    -> Aerosol(turbidity, 2, 0, 30000, cs)
      [] aerosol_type = "polar-artic"        -> Aerosol(turbidity, 2, 0, 30000, cs)
      [] aerosol_type = "remote-continental" -> Aerosol(turbidity, 610, 0, 730, cs)
      [] aerosol_type = "rural"              -> Aerosol(turbidity, 854, 0, 730, cs)
      [] aerosol_type = "urban"              -> Aerosol(turbidity, 13681, 0, 730, cs)

\* The cross-section tables of the variants are in aerosol.cxx, which is not
\* part of the sources at hand: they are data, read through lut_lerp, and the
\* model draws them from this set (key: wavelength in nm).
AerosolCrossSectionTables ==
    { [absorption |-> <<<<300, 7>>, <<700, 3>>, <<1000, 2>>>>,
       scattering |-> <<<<300, 95>>, <<700, 38>>, <<1000, 21>>>>],
      [absorption |-> <<<<300, 40>>, <<700, 33>>, <<1000, 29>>>>,
       scattering |-> <<<<300, 11>>, <<700, 6>>, <<1000, 5>>>>] }

get_absorption_cross_section(a, wl) == lut_lerp(a.cross_sections.absorption, wl)
get_scattering_cross_section(a, wl) == lut_lerp(a.cross_sections.scattering, wl)

\* Aerosol::get_density: height *= 1e-3;
\* _base_density * (expf(-height / _height_scale) + _background_divided_by_base_density)
get_density(a, height) ==
    MulDiv(lut_lerp(expf_neg_lut, (height * 1000) \div a.height_scale)
               + a.background_divided_by_base_density,
           a.base_density, 100000)

\* cross_section * get_density(height) * _turbidity * 1e-3
Aerosol_get_absorption(a, height, wl) ==
    (get_absorption_cross_section(a, wl) * get_density(a, height) * a.turbidity)
        \div 1000

Aerosol_get_scattering(a, height, wl) ==
    (get_scattering_cross_section(a, wl) * get_density(a, height) * a.turbidity)
        \div 1000

\* an extinction that leaves the absorption cross-section out
Aerosol_get_extinction_ScatteringOnly(a, height, wl) ==
    (get_scattering_cross_section(a, wl) * get_density(a, height) * a.turbidity)
        \div 1000

\* (absorption_cross_section + scattering_cross_section) * get_density(height)
\*     * _turbidity * 1e-3
Aerosol_get_extinction(a, height, wl) ==
    ((get_absorption_cross_section(a, wl) + get_scattering_cross_section(a, wl))
        * get_density(a, height) * a.turbidity) \div 1000

(***************************************************************************)
(* GuimeraAtmosphere  (atmosphere.cxx:374-503).  Heights in m, wavelengths *)
(* in nm, coefficients in units of 1e-9 m^-1.                              *)
(***************************************************************************)
\* a constructor that takes an unknown aerosol type for the urban aerosol
GuimeraAtmosphere_UnknownIsUrban(month, turbidity, aerosol_type, cs) ==
    [month   |-> IF month < 0 \/ month > 11 THEN 0 ELSE month,
     aerosol |-> IF aerosol_type \in AerosolTypes
                 THEN AerosolVariant(aerosol_type, turbidity, cs)
                 ELSE IF aerosol_type = "none" THEN NoAerosol
                 ELSE AerosolVariant("urban", turbidity, cs)]

\* a constructor that keeps the month index it is given
GuimeraAtmosphere_MonthKept(month, turbidity, aerosol_type, cs) ==
    [month   |-> month,
     aerosol |-> IF aerosol_type \in AerosolTypes
                 THEN AerosolVariant(aerosol_type, turbidity, cs)
                 ELSE NoAerosol]

\* the constructor: an out-of-range month becomes January; "none" and every
\* unknown aerosol type leave _aerosol null
GuimeraAtmosphere(month, turbidity, aerosol_type, cs) ==
    [month   |-> IF month < 0 \/ month > 11 THEN 0 ELSE month,
     aerosol |-> IF aerosol_type \in AerosolTypes
                 THEN AerosolVariant(aerosol_type, turbidity, cs)
                 ELSE NoAerosol]

\* beta_s * (P / Ps) * (Ts / T) * 1e-3, with Ps = 101325 Pa and Ts = 288.15 K;
\* the two ratios are kept in thousandths
get_molecular_scattering(atm, height, wl) ==
    LET beta_s == lut_lerp(rayleigh_volume_scattering_lut, wl)
        T == lut_lerp(standard_atmosphere_temperature_lut, height)
        P == lut_lerp(standard_atmosphere_pressure_lut, height)
    IN  MulDiv(MulDiv(beta_s, (P * 1000) \div 1013250, 1000),
               (28815 * 1000) \div T, 1000)

\* the fraction of the ozone column in the 9 km band of the height, in 1/210
get_ozone_height_distribution(height) ==
    IF height <= 9000 THEN 9
    ELSE IF height <= 18000 THEN 14
    ELSE IF height <= 27000 THEN 111
    ELSE IF height <= 36000 THEN 64
    ELSE IF height <= 45000 THEN 6
    ELSE IF height <= 54000 THEN 6
    ELSE 0

\* sigma_a = lut * 1e-4; total_ozone = dobson * 2.6867e20 (here in 1e16 m^-2);
\* density = distribution * total_ozone / 9e3 (here in 1e14 m^-3);
\* sigma_a * density
get_molecular_absorption(atm, height, wl) ==
    LET sigma_a == lut_lerp(ozone_cross_section_lut, wl)
        total_ozone == ozone_mean_monthly_dobson[atm.month + 1] * 26867
        density == ((get_ozone_height_distribution(height) * total_ozone)
                        \div 210) \div 90
    IN  MulDiv(sigma_a, density, 1000) \div 100

get_scattering(atm, height, wl) ==
    get_molecular_scattering(atm, height, wl)
    + IF atm.aerosol.present
      THEN Aerosol_get_scattering(atm.aerosol, height, wl) ELSE 0

get_absorption(atm, height, wl) ==
    get_molecular_absorption(atm, height, wl)
    + IF atm.aerosol.present
      THEN Aerosol_get_absorption(atm.aerosol, height, wl) ELSE 0

get_extinction(atm, height, wl) ==
    get_molecular_scattering(atm, height, wl)
    + get_molecular_absorption(atm, height, wl)
    + IF atm.aerosol.present
      THEN Aerosol_get_extinction(atm.aerosol, height, wl) ELSE 0

(***************************************************************************)
(* Atmosphere::get_max_extinction  (atmosphere.hxx:41-54).                 *)
(* prev_wl and prev_max_extinction are function-local statics: one pair    *)
(* for the whole process, whatever instance the method is called on.  The  *)
(* accesses are plain loads and stores, so a call is modelled one access   *)
(* at a time; the two stores of a miss are not ordered by anything and may *)
(* become visible in either order.                                         *)
(***************************************************************************)
GmeIdle(inst, wl) ==
    [pc |-> "idle", inst |-> inst, wl |-> wl, max_extinction |-> 0,
     pending |-> {}, ret |-> 0]

\* the call: get_max_extinction(wl) on instance inst by thread t
gme_call(t, inst, wl) ==
    /\ gme[t].pc \in {"idle", "returned"}
    /\ gme' = [gme EXCEPT ![t] = [GmeIdle(inst, wl) EXCEPT !.pc = "check"]]

\* float max_extinction = get_extinction(0.0f, wl);
GroundExtinction(inst, wl) == get_extinction(atmospheres[inst], 0, wl)

\* if (prev_wl == wl): the load of prev_wl and the comparison; on a miss the
\* ground-level extinction is computed (it touches no shared state)
gme_check(t) ==
    /\ gme[t].pc = "check"
    /\ IF prev_wl = gme[t].wl
       THEN gme' = [gme EXCEPT ![t].pc = "hit"]
       ELSE gme' = [gme EXCEPT ![t].pc = "store",
                               ![t].max_extinction =
                                   GroundExtinction(gme[t].inst, gme[t].wl),
                               ![t].pending = {"prev_wl", "prev_max_extinction"}]
    /\ UNCHANGED <<prev_wl, prev_max_extinction>>

\* return prev_max_extinction;
gme_hit(t) ==
    /\ gme[t].pc = "hit"
    /\ gme' = [gme EXCEPT ![t].pc = "returned", ![t].ret = prev_max_extinction]
    /\ UNCHANGED <<prev_wl, prev_max_extinction>>

\* the thread's record after one of its two stores; the call returns
\* max_extinction once both are done
GmeStored(g, what) ==
    IF g.pending = {what}
    THEN [g EXCEPT !.pending = {}, !.pc = "returned", !.ret = g.max_extinction]
    ELSE [g EXCEPT !.pending = g.pending \ {what}]

\* prev_wl = wl;
gme_store_wl(t) ==
    /\ gme[t].pc = "store"
    /\ "prev_wl" \in gme[t].pending
    /\ prev_wl' = gme[t].wl
    /\ gme' = [gme EXCEPT ![t] = GmeStored(gme[t], "prev_wl")]
    /\ UNCHANGED prev_max_extinction

\* prev_max_extinction = max_extinction;
gme_store_max(t) ==
    /\ gme[t].pc = "store"
    /\ "prev_max_extinction" \in gme[t].pending
    /\ prev_max_extinction' = gme[t].max_extinction
    /\ gme' = [gme EXCEPT ![t] = GmeStored(gme[t], "prev_max_extinction")]
    /\ UNCHANGED prev_wl

(***************************************************************************)
(* Phase functions  (phase.cxx).  A density is in units of 1e-4 sr^-1; the *)
(* cosine of the angle between wo and wi is cos25 / 25, the dot product of *)
(* two directions in fifths.                                               *)
(***************************************************************************)
\* the gamma term of the Chandrasekhar phase function, in 1e-5
gamma_lut ==
    <<<<200, 2326>>, <<205, 2241>>, <<210, 2100>>, <<215, 2043>>, <<220, 1986>>,
      <<225, 1930>>, <<240, 1872>>, <<260, 1758>>, <<270, 1729>>, <<280, 1672>>,
      <<290, 1643>>, <<300, 1614>>, <<310, 1614>>, <<320, 1586>>, <<330, 1557>>,
      <<340, 1557>>, <<350, 1528>>, <<360, 1528>>, <<370, 1528>>, <<380, 1499>>,
      <<390, 1499>>, <<400, 1499>>, <<450, 1471>>, <<500, 1442>>, <<550, 1442>>,
      <<600, 1413>>, <<650, 1413>>, <<700, 1413>>, <<750, 1413>>, <<800, 1384>>,
      <<850, 1384>>, <<900, 1384>>, <<950, 1384>>, <<1000, 1384>>>>

\* (RAYLEIGH_PHASE_SCALE / (1 + 2 gamma)) * (1 + 3 gamma + (1 - gamma) cos^2),
\* with RAYLEIGH_PHASE_SCALE = 3 / (16 pi) = 0.059683
ChandrasekharPhase_p(cos25, wl) ==
    LET gamma == lut_lerp(gamma_lut, wl)
        scale == (59683 * 10000) \div (10000 + (2 * gamma) \div 10)
        bracket == 10000 + (3 * gamma) \div 10
                   + (((100000 - gamma) * cos25 * cos25) \div 625) \div 10
    IN  MulDiv(bracket, scale, 10000) \div 100

\* M_INV_4PI * (1 - gg) / (denom * sqrtf(denom)), denom = 1 + gg + 2 g cos,
\* for g in tenths
HenyeyGreenstein_p(g, cos25) ==
    LET denom == 10000 + 100 * g * g + (2000 * g * cos25) \div 25
        root == sqrtf(denom * 10000)
    IN  (796 * (10000 - 100 * g * g)) \div MulDiv(denom, root, 10000)

\* GuimeraAtmosphere::phase_eval: the molecular phase function when there is
\* no aerosol; otherwise the molecular one when the sample (in quarters) is
\* below molecular / (molecular + aerosol) scattering, else that of the
\* aerosol, HenyeyGreenstein(0.8).  When both scatterings are 0 the
\* probability is 0/0 and the comparison with NaN is false.
phase_eval(atm, height, sample, cos25, wl) ==
    IF ~atm.aerosol.present THEN ChandrasekharPhase_p(cos25, wl)
    ELSE LET molecular_scattering == get_molecular_scattering(atm, height, wl)
             aerosol_scattering == Aerosol_get_scattering(atm.aerosol, height, wl)
         IN  IF /\ molecular_scattering + aerosol_scattering > 0
                /\ sample * (molecular_scattering + aerosol_scattering)
                       < 4 * molecular_scattering
             THEN ChandrasekharPhase_p(cos25, wl)
             ELSE HenyeyGreenstein_p(8, cos25)

\* Atmosphere::get_scattering_albedo, in 1e-4: scattering / (absorption +
\* scattering).  Where both are 0 the quotient is NaN, below which no draw is:
\* the model gives -1 there.
get_scattering_albedo(atm, height, wl) ==
    LET scattering == get_scattering(atm, height, wl)
        extinction == get_absorption(atm, height, wl) + scattering
    IN  IF extinction = 0 THEN 0 - 1
        ELSE (scattering * 10000) \div extinction

(***************************************************************************)
(* Specification SpecAtmos: one GuimeraAtmosphere, built from every month  *)
(* index, aerosol type and turbidity of the input sets, queried by one     *)
(* thread for its majorant and its coefficients at a height.               *)
(***************************************************************************)
Months == (0 - 1)..12
Turbidities == {1, 3}
AerosolNames == AerosolTypes \cup {"none", "smog"}
Wavelengths == {253, 320, 550, 600, 1000}
Heights == {0, 9000, 9001, 18001, 27001, 36001, 54001, 100000}

Instances ==
    {GuimeraAtmosphere(month, turbidity, aerosol_type, cs) :
        month \in Months, turbidity \in Turbidities,
        aerosol_type \in AerosolNames, cs \in AerosolCrossSectionTables}

QueryNone ==
    [phase |-> "none", wl |-> 0, height |-> 0, majorant |-> 0,
     extinction |-> 0, absorption |-> 0, scattering |-> 0,
     aerosol_extinction |-> 0, aerosol_absorption |-> 0,
     aerosol_scattering |-> 0]

RendererOff ==
    /\ pc = "off"
    /\ cfg = Config(1, 1, 1, 1)
    /\ tiles = <<>>
    /\ GeomOff
    /\ WorkersOff
    /\ CallsOff

InitAtmos ==
    /\ RendererOff
    /\ \E atm \in Instances : atmospheres = <<atm>>
    /\ gme = <<GmeIdle(1, 0)>>
    /\ prev_wl = 0
    /\ prev_max_extinction = 0
    /\ query = QueryNone

\* a caller (sample_interaction, transmittance) asks for the majorant of wl;
\* one process traces one wavelength (Renderer::_wavelength)
AtmosQuery(wl, height) ==
    /\ \/ query.phase = "none"
       \/ query.phase = "done" /\ wl = query.wl
    /\ gme_call(1, 1, wl)
    /\ query' = [QueryNone EXCEPT !.phase = "majorant", !.wl = wl,
                                  !.height = height]
    /\ UNCHANGED <<prev_wl, prev_max_extinction>>

\* and, with the majorant returned, for the coefficients at the height
AtmosEvaluate ==
    /\ query.phase = "majorant"
    /\ gme[1].pc = "returned"
    /\ LET atm == atmospheres[1]
           h == query.height
           wl == query.wl
       IN  query' =
             [query EXCEPT
                !.phase = "done",
                !.majorant = gme[1].ret,
                !.extinction = get_extinction(atm, h, wl),
                !.absorption = get_absorption(atm, h, wl),
                !.scattering = get_scattering(atm, h, wl),
                !.aerosol_extinction =
                    IF atm.aerosol.present
                    THEN Aerosol_get_extinction(atm.aerosol, h, wl) ELSE 0,
                !.aerosol_absorption =
                    IF atm.aerosol.present
                    THEN Aerosol_get_absorption(atm.aerosol, h, wl) ELSE 0,
                !.aerosol_scattering =
                    IF atm.aerosol.present
                    THEN Aerosol_get_scattering(atm.aerosol, h, wl) ELSE 0]
    /\ UNCHANGED <<gme, prev_wl, prev_max_extinction>>

NextAtmos ==
    \/ /\ \/ \E wl \in Wavelengths, height \in Heights : AtmosQuery(wl, height)
          \/ AtmosEvaluate
          \/ gme_check(1) /\ UNCHANGED query
          \/ gme_hit(1) /\ UNCHANGED query
          \/ gme_store_wl(1) /\ UNCHANGED query
          \/ gme_store_max(1) /\ UNCHANGED query
       /\ UNCHANGED <<pc, cfg, tiles, atmospheres, geomVars, workerVars,
                      callVars>>

SpecAtmos == InitAtmos /\ [][NextAtmos]_vars

\* C8: whenever a query is answered, the majorant returned by
\* get_max_extinction(wl) is at least get_extinction(h, wl), for every
\* wavelength, month, aerosol configuration and height of the atmosphere.
C8_MajorantValid ==
    query.phase = "done" => query.majorant >= query.extinction

\* the case C8 is about: a query away from the ground, answered, in which the
\* majorant is the ground-level extinction of the queried wavelength
C8_Witness ==
    /\ query.phase = "done"
    /\ query.height > 0
    /\ query.majorant = get_extinction(atmospheres[1], 0, query.wl)
    /\ query.majorant < query.extinction

CacheWavelengths == {0, 550, 600}
CacheThreads == {1, 2}
CacheInstances ==
    UNION {{GuimeraAtmosphere(0, 1, "none", cs),
            GuimeraAtmosphere(6, 3, "urban", cs),
            GuimeraAtmosphere(6, 1, "desert-dust", cs)}
           : cs \in AerosolCrossSectionTables}

InitCacheSeq ==
    /\ RendererOff
    /\ \E atm \in CacheInstances : atmospheres = <<atm>>
    /\ gme = <<GmeIdle(1, 0)>>
    /\ prev_wl = 0
    /\ prev_max_extinction = 0
    /\ query = QueryNone

\* the next call of the single thread, with any wavelength
CacheSeqCall == \E wl \in CacheWavelengths : gme_call(1, 1, wl)

NextCacheSeq ==
    /\ \/ CacheSeqCall /\ UNCHANGED <<prev_wl, prev_max_extinction>>
       \/ gme_check(1)
       \/ gme_hit(1)
       \/ gme_store_wl(1)
       \/ gme_store_max(1)
    /\ UNCHANGED <<pc, cfg, tiles, atmospheres, query, geomVars, workerVars,
                   callVars>>

SpecCacheSeq == InitCacheSeq /\ [][NextCacheSeq]_vars

InitCachePar ==
    /\ RendererOff
    /\ \E a1 \in CacheInstances, a2 \in CacheInstances :
           a1 # a2 /\ atmospheres = <<a1, a2>>
    /\ \E inst \in [CacheThreads -> {1, 2}], wl \in [CacheThreads -> CacheWavelengths] :
           gme = [t \in CacheThreads |-> GmeIdle(inst[t], wl[t])]
    /\ prev_wl = 0
    /\ prev_max_extinction = 0
    /\ query = QueryNone

\* thread t calls (again) on its instance with its wavelength
CacheParCall(t) == gme_call(t, gme[t].inst, gme[t].wl)

NextCachePar ==
    /\ \E t \in CacheThreads :
          \/ CacheParCall(t) /\ UNCHANGED <<prev_wl, prev_max_extinction>>
          \/ gme_check(t)
          \/ gme_hit(t)
          \/ gme_store_wl(t)
          \/ gme_store_max(t)
    /\ UNCHANGED <<pc, cfg, tiles, atmospheres, query, geomVars, workerVars,
                   callVars>>

SpecCachePar == InitCachePar /\ [][NextCachePar]_vars

\* the value get_max_extinction is documented to return to thread t
GmeExpected(t) == get_extinction(atmospheres[gme[t].inst], 0, gme[t].wl)

\* C7: in single-threaded use every call returns get_extinction(0, wl) of
\* the wavelength passed, whatever the sequence of wavelengths, and leaves
\* the cache holding (wl, get_extinction(0, wl)).
C7_SequentialCallsCorrect ==
    gme[1].pc = "returned" =>
        /\ gme[1].ret = GmeExpected(1)
        /\ prev_wl = gme[1].wl
        /\ prev_max_extinction = GmeExpected(1)

\* the failing case of C7: a call with wavelength 0 has returned the initial
\* cache value 0, which is not the ground-level extinction
C7_Witness ==
    /\ gme[1].pc = "returned"
    /\ gme[1].wl = 0
    /\ gme[1].ret = 0
    /\ GmeExpected(1) > 0

\* the usage pattern of C1: all threads share one instance and one non-zero
\* wavelength
SharedWavelength ==
    \A t, u \in CacheThreads :
        gme[t].inst = gme[u].inst /\ gme[t].wl = gme[u].wl /\ gme[t].wl # 0

\* C1: when all workers call get_max_extinction on the shared atmosphere
\* with the same non-zero wavelength, every call returns
\* get_extinction(0, wl), under every interleaving of their accesses to the
\* cache.
C1_SharedWavelengthCallsCorrect ==
    SharedWavelength =>
        \A t \in CacheThreads :
            gme[t].pc = "returned" => gme[t].ret = GmeExpected(t)

\* the failing case of C1: a worker has returned the initial value 0 of
\* prev_max_extinction while another worker is between its two stores
C1_Witness ==
    /\ SharedWavelength
    /\ \E t, u \in CacheThreads :
          /\ gme[t].pc = "returned" /\ gme[t].ret = 0 /\ GmeExpected(t) > 0
          /\ gme[u].pc = "store" /\ gme[u].pending = {"prev_max_extinction"}

\* the discipline of C6: each thread has its own instance, and the threads
\* trace different non-zero wavelengths
InstancePerThread ==
    \A t, u \in CacheThreads :
        /\ gme[t].wl # 0
        /\ t # u => gme[t].inst # gme[u].inst /\ gme[t].wl # gme[u].wl

\* C6: when each thread calls get_max_extinction on its own instance, with
\* different wavelengths, every call returns get_extinction(0, wl) of the
\* calling instance for the wavelength it passed, under every interleaving.
C6_InstancePerThreadCallsCorrect ==
    InstancePerThread =>
        \A t \in CacheThreads :
            gme[t].pc = "returned" => gme[t].ret = GmeExpected(t)

\* the failing case of C6: a thread got, from a hit of the cache, the
\* ground-level extinction that the other thread computed on its own
\* instance for the other wavelength
C6_Witness ==
    /\ InstancePerThread
    /\ \E t, u \in CacheThreads :
          /\ t # u
          /\ gme[t].pc = "returned"
          /\ gme[t].ret # GmeExpected(t)
          /\ gme[t].ret = GmeExpected(u)

(***************************************************************************)
(* Scene geometry  (common.hxx:35-38, integrator.cxx:39-50, 129-168).      *)
(* The unit of length is the km.  The model is of the vertical plane       *)
(* through the camera: a ray starts at (o_x, o_z), on the vertical axis    *)
(* through the camera (o_x = 0) when a camera builds it, and its direction *)
(* is <<dx, dz>> in fifths of a unit vector (dx^2 + dz^2 = 25).  Distances *)
(* along a ray are in fifths of a km, so that the sentinel -1.0f is -5.  A *)
(* square root is rounded down.                                            *)
(***************************************************************************)
EARTH_RADIUS == 6371
ATMOSPHERE_THICKNESS == 100
ATMOSPHERE_RADIUS == EARTH_RADIUS + ATMOSPHERE_THICKNESS

Directions ==
    {d \in ((0 - 5)..5) \X ((0 - 5)..5) : d[1] * d[1] + d[2] * d[2] = 25}

\* Ray(origin, direction)
RayFrom(o_x, o_z, d) == [o_x |-> o_x, o_z |-> o_z, d |-> d]

\* the ray of a camera: from (0, 0, eye_altitude)
Ray(o_z, d) == RayFrom(0, o_z, d)

\* vec3 oc = ray.o - EARTH_CENTER
RayOc(ray) == <<ray.o_x, ray.o_z + EARTH_RADIUS>>

\* float b = dot(oc, ray.d), in fifths
RayB(ray) == RayOc(ray)[1] * ray.d[1] + RayOc(ray)[2] * ray.d[2]

\* float c = dot(oc, oc) - sr*sr
RayC(ray, sr) ==
    RayOc(ray)[1] * RayOc(ray)[1] + RayOc(ray)[2] * RayOc(ray)[2] - sr * sr

\* float d = b*b - c, in twenty-fifths
RayD(ray, sr) == RayB(ray) * RayB(ray) - 25 * RayC(ray, sr)

ray_sphere_intersection(ray, sr) ==
    LET b == RayB(ray)
        c == RayC(ray, sr)
        d == RayD(ray, sr)
    IN  IF c > 0 /\ b > 0 THEN 0 - 5
        ELSE IF d < 0 THEN 0 - 5
        ELSE IF d > b * b THEN (0 - b) + sqrtf(d)
        ELSE (0 - b) - sqrtf(d)

scene_intersect(ray) ==
    LET atmos_t == ray_sphere_intersection(ray, ATMOSPHERE_RADIUS)
    IN  IF ray.o_z >= ATMOSPHERE_THICKNESS
        THEN \* outside the atmosphere
             IF atmos_t < 0
             THEN [t_max |-> 0 - 5, intersected_earth |-> FALSE]
             ELSE LET earth_t == ray_sphere_intersection(ray, EARTH_RADIUS)
                  IN  IF earth_t < 0
                      THEN [t_max |-> ray_sphere_intersection(ray, ATMOSPHERE_RADIUS),
                            intersected_earth |-> FALSE]
                      ELSE [t_max |-> earth_t, intersected_earth |-> TRUE]
        ELSE \* inside the atmosphere
             LET earth_t == ray_sphere_intersection(ray, EARTH_RADIUS)
             IN  IF earth_t < 0
                 THEN [t_max |-> atmos_t, intersected_earth |-> FALSE]
                 ELSE [t_max |-> earth_t, intersected_earth |-> TRUE]

(***************************************************************************)
(* Specification SpecGeom: scene_intersect on a ray from every eye         *)
(* altitude of EyeAltitudes in every direction of Directions.              *)
(***************************************************************************)
EyeAltitudes == {0, 1, 50, 99, 100, 101, 400, 1650, 2800}

AtmosOff ==
    /\ atmospheres = <<>>
    /\ prev_wl = 0
    /\ prev_max_extinction = 0
    /\ gme = <<>>
    /\ query = [phase |-> "none"]

InitGeom ==
    /\ pc = "off"
    /\ cfg = Config(1, 1, 1, 1)
    /\ tiles = <<>>
    /\ AtmosOff
    /\ WorkersOff
    /\ CallsOff
    /\ \E o_z \in EyeAltitudes, d \in Directions :
           isect = [phase |-> "ray", ray |-> Ray(o_z, d),
                    t_max |-> 0, intersected_earth |-> FALSE]

scene_intersect_call ==
    /\ isect.phase = "ray"
    /\ LET r == scene_intersect(isect.ray)
       IN  isect' = [isect EXCEPT !.phase = "done", !.t_max = r.t_max,
                                  !.intersected_earth = r.intersected_earth]

NextGeom ==
    /\ scene_intersect_call
    /\ UNCHANGED <<pc, cfg, tiles, atmospheres, prev_wl, prev_max_extinction,
                   gme, query, workerVars, callVars>>

SpecGeom == InitGeom /\ [][NextGeom]_vars

\* t (in fifths of a km) is where the ray meets the sphere of radius sr for
\* the first time (far = FALSE) or leaves it (far = TRUE): t + b is the
\* negative or positive square root of d, rounded down in magnitude
IsRoot(ray, sr, t, far) ==
    LET s == IF far THEN t + RayB(ray) ELSE 0 - (t + RayB(ray))
        d == RayD(ray, sr)
    IN  s >= 0 /\ s * s <= d /\ d < (s + 1) * (s + 1)

\* the ray meets the sphere of radius sr ahead of its origin
Meets(ray, sr) ==
    /\ RayD(ray, sr) >= 0
    /\ (0 - RayB(ray)) + sqrtf(RayD(ray, sr)) >= 0

\* C10: whenever scene_intersect returns a non-negative t_max, either the
\* ground flag is set and t_max is the distance to the first hit of the
\* ground sphere, or the flag is clear and t_max is the distance at which the
\* ray leaves the atmosphere sphere; for origins inside the atmosphere and
\* for origins outside it.
C10_SceneIntersectPostcondition ==
    (isect.phase = "done" /\ isect.t_max >= 0) =>
        IF isect.intersected_earth
        THEN IsRoot(isect.ray, EARTH_RADIUS, isect.t_max, FALSE)
        ELSE IsRoot(isect.ray, ATMOSPHERE_RADIUS, isect.t_max, TRUE)

\* the failing case of C10: from outside the atmosphere the ray enters it
\* and misses the ground, and t_max is the entry distance, which is shorter
\* than the exit distance
C10_Witness ==
    /\ isect.phase = "done"
    /\ isect.ray.o_z > ATMOSPHERE_THICKNESS
    /\ Meets(isect.ray, ATMOSPHERE_RADIUS)
    /\ ~Meets(isect.ray, EARTH_RADIUS)
    /\ ~isect.intersected_earth
    /\ IsRoot(isect.ray, ATMOSPHERE_RADIUS, isect.t_max, FALSE)
    /\ ~IsRoot(isect.ray, ATMOSPHERE_RADIUS, isect.t_max, TRUE)

(***************************************************************************)
(* Specification SpecSphere: ray_sphere_intersection on a ray from every   *)
(* origin of SphereOrigins in every direction of Directions, against the   *)
(* two spheres of the scene.  The origins on the axis at the altitudes 0   *)
(* and 100 km and the origin (2645, -575), which is on the ground away     *)
(* from the axis (2645^2 + 5796^2 = 6371^2), lie on a sphere.              *)
(***************************************************************************)
SphereOrigins == {<<0, o_z>> : o_z \in EyeAltitudes} \cup {<<2645, 0 - 575>>}

SphereRadii == {EARTH_RADIUS, ATMOSPHERE_RADIUS}

InitSphere ==
    /\ pc = "off"
    /\ cfg = Config(1, 1, 1, 1)
    /\ tiles = <<>>
    /\ AtmosOff
    /\ WorkersOff
    /\ CallsOff
    /\ \E o \in SphereOrigins, d \in Directions, sr \in SphereRadii :
           isect = [phase |-> "sphere", ray |-> RayFrom(o[1], o[2], d),
                    sr |-> sr, t |-> 0]

ray_sphere_intersection_call ==
    /\ isect.phase = "sphere"
    /\ isect' = [isect EXCEPT !.phase = "sphere_done",
                              !.t = ray_sphere_intersection(isect.ray, isect.sr)]

NextSphere ==
    /\ ray_sphere_intersection_call
    /\ UNCHANGED <<pc, cfg, tiles, atmospheres, prev_wl, prev_max_extinction,
                   gme, query, workerVars, callVars>>

SpecSphere == InitSphere /\ [][NextSphere]_vars

\* C11: ray_sphere_intersection returns the sentinel -1 (here -5 fifths),
\* and then the ray misses the sphere or starts outside it pointing away, or
\* a value >= 0 that is the nearest non-negative distance at which the ray
\* meets the sphere: the near root, or the far root when the near one is
\* negative; at an origin on the sphere the nearest such distance is 0.
C11_SentinelOrNearestHit ==
    isect.phase = "sphere_done" =>
        \/ /\ isect.t = 0 - 5
           /\ \/ RayD(isect.ray, isect.sr) < 0
              \/ RayC(isect.ray, isect.sr) > 0 /\ RayB(isect.ray) > 0
        \/ /\ isect.t >= 0
           /\ \/ IsRoot(isect.ray, isect.sr, isect.t, FALSE)
              \/ /\ IsRoot(isect.ray, isect.sr, isect.t, TRUE)
                 /\ (0 - RayB(isect.ray)) - sqrtf(RayD(isect.ray, isect.sr)) < 0

\* the failing case of C11: the origin is on the sphere (c = 0) and the ray
\* points outwards (b > 0); the value returned is -b - sqrtf(b*b) = -2b,
\* which is negative and is not the sentinel
C11_Witness ==
    /\ isect.phase = "sphere_done"
    /\ RayC(isect.ray, isect.sr) = 0
    /\ RayB(isect.ray) > 0
    /\ isect.t = 0 - 2 * RayB(isect.ray)
    /\ isect.t < 0
    /\ isect.t # 0 - 5

(***************************************************************************)
(* pcg32 and Sampler  (random.hxx:42-61, sampler.hxx).                     *)
(* The generator is modelled with the structure of pcg32 on a 12-bit       *)
(* state: the same multiplier modulo 2^12, the same seeding sequence, an   *)
(* xorshift of the old state below its two top bits and a rotation by the  *)
(* two top bits for the 6-bit output; next_float keeps the two top bits of *)
(* the output, so a draw is 0, 1/4, 1/2 or 3/4.                            *)
(***************************************************************************)
\* bit k of a
Bit(a, k) == (a \div (2 ^ k)) % 2

\* a ^ b for numbers of 12 bits
Xor(a, b) ==
    LET x(k) == ((Bit(a, k) + Bit(b, k)) % 2) * (2 ^ k)
    IN  x(0) + x(1) + x(2) + x(3) + x(4) + x(5) + x(6) + x(7) + x(8) + x(9)
        + x(10) + x(11)

\* uint32_t next_uint(): the new generator and the output
next_uint(rng) ==
    LET oldstate == rng.state
        xorshifted == (Xor(oldstate \div 4, oldstate) \div 16) % 64
        rot == oldstate \div 1024
    IN  [rng |-> [rng EXCEPT !.state = (oldstate * 3885 + rng.inc) % 4096],
         out |-> (xorshifted \div (2 ^ rot)
                  + xorshifted * (2 ^ (6 - rot))) % 64]

\* float next_float(), in quarters
next_float(rng) ==
    LET r == next_uint(rng) IN [rng |-> r.rng, out |-> r.out \div 16]

\* void seed(uint64_t initstate, uint64_t initseq)
seed(initstate, initseq) ==
    LET r0 == [state |-> 0, inc |-> (2 * initseq + 1) % 4096]
        r1 == next_uint(r0).rng
        r2 == [r1 EXCEPT !.state = (r1.state + initstate) % 4096]
    IN  next_uint(r2).rng

\* Sampler(uint64_t begin, uint64_t end)
Sampler(begin, end) == seed(begin, end)

(***************************************************************************)
(* EquirectangularCamera::sample_ray  (camera.cxx:81-104).                 *)
(***************************************************************************)
\* cos(pi * num / den) for 0 <= num < den, to the nearest of the direction
\* cosines 1, 4/5, 3/5, 0, -3/5, -4/5, -1, in fifths
CosPiFifths(num, den) ==
    LET v == (num * 10000) \div den
    IN  IF v <= 1436 THEN 5
        ELSE IF v <= 2532 THEN 4
        ELSE IF v <= 4030 THEN 3
        ELSE IF v < 5970 THEN 0
        ELSE IF v < 7468 THEN 0 - 3
        ELSE IF v < 8564 THEN 0 - 4
        ELSE 0 - 5

\* spherical_to_cartesian(theta, phi) in the vertical plane of the ray
spherical_to_cartesian(num, den) ==
    LET dz == CosPiFifths(num, den)
    IN  <<sqrtf(25 - dz * dz), dz>>

\* uv.y = (y + u) / height with u in quarters; theta = M_PI * uv.y
sample_ray(c, y, u) ==
    Ray(c.eye_altitude, spherical_to_cartesian(4 * y + u, 4 * c.image_height))

(***************************************************************************)
(* transmittance  (integrator.cxx:104-120) and TransmittanceIntegrator::Li *)
(* (integrator.cxx:191-201).  t is in fifths of a km, Tr in 1e-4.          *)
(***************************************************************************)
\* -logf(1.0f - u) for u in quarters, in 1e-4
NegLog1m(u) == <<0, 2877, 6931, 13863>>[u + 1]

\* height_at_point(ray.o + ray.d * t), in m
height_at_point(ray, t) ==
    LET x == RayOc(ray)[1] + (ray.d[1] * t) \div 25
        z == RayOc(ray)[2] + (ray.d[2] * t) \div 25
    IN  (sqrtf(x * x + z * z) - EARTH_RADIUS) * 1000

\* t -= logf(1.0f - sampler->next_1d()) / majorant, for a majorant above 0
FlightEnd(t, sampler, majorant) ==
    t + MulDiv(NegLog1m(next_float(sampler).out), 500, majorant)

\* An Atmosphere other than GuimeraAtmosphere: a medium whose coefficients
\* are 0 at every height.  get_extinction is virtual (atmosphere.hxx:38).
ZeroMedium == [model |-> "zero"]

\* atmosphere->get_extinction(height, wl), dispatched on the instance
Atmosphere_get_extinction(atm, height, wl) ==
    IF atm = ZeroMedium THEN 0 ELSE get_extinction(atm, height, wl)

\* extinction / majorant in 1e-4, for a majorant above 0; both are scaled
\* down by 100 first when the majorant is too large for MulDiv
ExtinctionRatio(extinction, majorant) ==
    IF majorant <= 200000 THEN MulDiv(extinction, 10000, majorant)
    ELSE MulDiv(extinction \div 100, 10000, majorant \div 100)

\* Tr *= 1.0f - fmaxf(0.0f, extinction / majorant) at the point t of the ray
Attenuated(atm, wl, majorant, ray, Tr, t) ==
    (Tr * (10000 - ExtinctionRatio(
                       Atmosphere_get_extinction(atm, height_at_point(ray, t), wl),
                       majorant))) \div 10000

\* the loop of transmittance from the state (Tr, t, sampler).  With a
\* majorant of 0 the step is +inf when the draw is not 0, and the loop
\* breaks at once; it is NaN when the draw is 0, after which t >= t_max is
\* false for ever and the loop does not terminate.
RECURSIVE TransmittanceLoop(_, _, _, _, _, _, _, _)
TransmittanceLoop(atm, wl, majorant, ray, t_max, Tr, t, sampler) ==
    IF majorant = 0
    THEN [hung |-> next_float(sampler).out = 0, value |-> Tr,
          sampler |-> next_float(sampler).rng]
    ELSE IF FlightEnd(t, sampler, majorant) >= t_max
    THEN [hung |-> FALSE, value |-> Tr, sampler |-> next_float(sampler).rng]
    ELSE TransmittanceLoop(atm, wl, majorant, ray, t_max,
                           Attenuated(atm, wl, majorant, ray, Tr,
                                      FlightEnd(t, sampler, majorant)),
                           FlightEnd(t, sampler, majorant),
                           next_float(sampler).rng)

\* a transmittance that attenuates at the first point before it tests
\* t >= t_max
transmittance_TestAfter(atm, sampler, ray, t_max, wl, majorant) ==
    IF majorant = 0
    THEN TransmittanceLoop(atm, wl, majorant, ray, t_max, 10000, 0, sampler)
    ELSE TransmittanceLoop(atm, wl, majorant, ray, t_max,
                           Attenuated(atm, wl, majorant, ray, 10000,
                                      FlightEnd(0, sampler, majorant)),
                           FlightEnd(0, sampler, majorant),
                           next_float(sampler).rng)

\* transmittance, given what get_max_extinction returned
transmittance(atm, sampler, ray, t_max, wl, majorant) ==
    TransmittanceLoop(atm, wl, majorant, ray, t_max, 10000, 0, sampler)

(***************************************************************************)
(* sample_interaction  (integrator.cxx:82-98).  The result is the distance *)
(* t in fifths of a km, or the sentinel -5.                                *)
(***************************************************************************)
\* if (sampler->next_1d() < fmaxf(0.0f, extinction / majorant)), for a
\* majorant above 0 and a draw u in quarters
Accepted(u, extinction, majorant) == u * majorant < 4 * extinction

\* the loop of sample_interaction from the state (t, sampler).  With a
\* majorant of 0 the first step is +inf when the draw is not 0, and the loop
\* breaks; when the draw is 0 the step is 0/0: t is NaN, t >= t_max is false
\* and the point p is NaN.  There extinction / majorant is +inf for a
\* GuimeraAtmosphere without aerosol (lut_lerp of a NaN key returns the first
\* value of the table), and the NaN t is returned after the second draw; it
\* is NaN for the medium without extinction (0/0) and with an aerosol
\* (expf(NaN)), fmaxf gives 0, nothing is accepted, and t is NaN for ever.
RECURSIVE SampleInteractionLoop(_, _, _, _, _, _, _)
SampleInteractionLoop(atm, wl, majorant, ray, t_max, t, sampler) ==
    IF majorant = 0
    THEN IF next_float(sampler).out # 0
         THEN [hung |-> FALSE, nan |-> FALSE, t |-> 0 - 5,
               sampler |-> next_float(sampler).rng]
         ELSE IF atm # ZeroMedium /\ ~atm.aerosol.present
         THEN [hung |-> FALSE, nan |-> TRUE, t |-> 0,
               sampler |-> next_float(next_float(sampler).rng).rng]
         ELSE [hung |-> TRUE, nan |-> TRUE, t |-> 0,
               sampler |-> next_float(sampler).rng]
    ELSE IF FlightEnd(t, sampler, majorant) >= t_max
    THEN [hung |-> FALSE, nan |-> FALSE, t |-> 0 - 5,
          sampler |-> next_float(sampler).rng]
    ELSE IF Accepted(next_float(next_float(sampler).rng).out,
                     Atmosphere_get_extinction(
                         atm, height_at_point(ray, FlightEnd(t, sampler, majorant)),
                         wl),
                     majorant)
    THEN [hung |-> FALSE, nan |-> FALSE, t |-> FlightEnd(t, sampler, majorant),
          sampler |-> next_float(next_float(sampler).rng).rng]
    ELSE SampleInteractionLoop(atm, wl, majorant, ray, t_max,
                               FlightEnd(t, sampler, majorant),
                               next_float(next_float(sampler).rng).rng)

\* sample_interaction, given what get_max_extinction returned
sample_interaction(atm, sampler, ray, t_max, wl, majorant) ==
    SampleInteractionLoop(atm, wl, majorant, ray, t_max, 0, sampler)

(***************************************************************************)
(* Specification SpecTrack: one call of transmittance or of                *)
(* sample_interaction, on a segment of every length of TrackLengths of a   *)
(* ray of TrackRays, with every random stream of TrackSamplers, in a       *)
(* GuimeraAtmosphere or in the medium without extinction.  The majorant is *)
(* what get_max_extinction returns: the ground-level extinction; for the   *)
(* medium without extinction that is 0, unless the instance overrides      *)
(* get_max_extinction (it is virtual) to return a positive bound.          *)
(***************************************************************************)
TrackWavelength == 1000
TrackLengths == {0, 5, 500, 2500}
TrackRays == {Ray(o_z, d) : o_z \in {0, 1, 50}, d \in {<<0, 5>>, <<3, 4>>, <<5, 0>>}}
TrackSamplers == {Sampler(begin, end) : begin \in 0..3, end \in 1..4}
TrackMedia == {ZeroMedium} \cup CacheInstances

TrackMajorants(atm) ==
    IF atm = ZeroMedium THEN {0, 2000}
    ELSE {get_extinction(atm, 0, TrackWavelength)}

InitTrack ==
    /\ pc = "off"
    /\ cfg = Config(1, 1, 1, 1)
    /\ tiles = <<>>
    /\ \E atm \in TrackMedia : atmospheres = <<atm>>
    /\ prev_wl = 0
    /\ prev_max_extinction = 0
    /\ gme = <<>>
    /\ query = [phase |-> "none"]
    /\ GeomOff
    /\ WorkersOff
    /\ SceneOff /\ LutOff /\ LiOff
    /\ \E fn \in {"transmittance", "sample_interaction"},
          majorant \in TrackMajorants(atmospheres[1]),
          ray \in TrackRays, t_max \in TrackLengths, sampler \in TrackSamplers :
           track = [phase |-> "call", fn |-> fn, majorant |-> majorant,
                    ray |-> ray, t_max |-> t_max, first |-> sampler,
                    sampler |-> sampler, nan |-> FALSE, value |-> 0]

\* the call of transmittance: it returns Tr, or never returns
transmittance_call ==
    /\ track.phase = "call"
    /\ track.fn = "transmittance"
    /\ \E r \in {transmittance(atmospheres[1], track.sampler, track.ray,
                                track.t_max, TrackWavelength, track.majorant)} :
          track' = [track EXCEPT !.phase = IF r.hung THEN "hung" ELSE "returned",
                                 !.value = r.value, !.sampler = r.sampler]

\* the call of sample_interaction: it returns t, or never returns
sample_interaction_call ==
    /\ track.phase = "call"
    /\ track.fn = "sample_interaction"
    /\ \E r \in {sample_interaction(atmospheres[1], track.sampler, track.ray,
                                     track.t_max, TrackWavelength,
                                     track.majorant)} :
          track' = [track EXCEPT !.phase = IF r.hung THEN "hung" ELSE "returned",
                                 !.value = r.t, !.nan = r.nan,
                                 !.sampler = r.sampler]

NextTrack ==
    /\ \/ transmittance_call
       \/ sample_interaction_call
    /\ UNCHANGED <<pc, cfg, tiles, atmospheres, prev_wl, prev_max_extinction,
                   gme, query, geomVars, workerVars, scene, lut, li>>

SpecTrack == InitTrack /\ [][NextTrack]_vars

\* C12: transmittance over a segment of length 0 returns exactly 1 (10000
\* in units of 1e-4), for every random stream and every positive majorant:
\* the call returns after the one draw of its first step, in which
\* t >= t_max already holds, without a lookup or a multiplication.
C12_ZeroLengthTransmittanceIsOne ==
    (/\ track.phase # "call"
     /\ track.fn = "transmittance"
     /\ track.t_max = 0
     /\ track.majorant > 0) =>
        /\ track.phase = "returned"
        /\ track.value = 10000
        /\ track.sampler = next_float(track.first).rng

\* a call of transmittance on a segment of length 0 that has returned, in a
\* GuimeraAtmosphere whose extinction at the origin of the ray is above 0,
\* with a stream whose first draw is not 0
C12_Witness ==
    /\ track.phase = "returned"
    /\ track.fn = "transmittance"
    /\ track.t_max = 0
    /\ track.majorant > 0
    /\ atmospheres[1] # ZeroMedium
    /\ next_float(track.first).out # 0
    /\ track.value = 10000

\* C13: sample_interaction in the medium whose extinction is 0 everywhere
\* returns the sentinel -1 (here -5), for every segment length and every
\* random stream.
C13_NoInteractionInZeroMedium ==
    (/\ track.phase # "call"
     /\ track.fn = "sample_interaction"
     /\ atmospheres[1] = ZeroMedium) =>
        /\ track.phase = "returned"
        /\ track.value = 0 - 5

\* the failing case of C13: the majorant of the medium is its ground-level
\* extinction, 0, and the first draw of the stream is 0: the step is 0/0 and
\* the call never returns
C13_Witness ==
    /\ track.phase = "hung"
    /\ track.fn = "sample_interaction"
    /\ atmospheres[1] = ZeroMedium
    /\ track.majorant = 0
    /\ next_float(track.first).out = 0

(***************************************************************************)
(* Renderer::render  (renderer.cxx:80-118), render_tile, render_pixel and  *)
(* place_pixel (renderer.cxx:195-230), with the equirectangular camera,    *)
(* the transmittance integrator and one sample per pixel.                  *)
(***************************************************************************)
\* the most kernel invocations a render is split into
MaxTasks == 2

RenderConfig(w, h, tw, th, wl, eye_altitude, y_first) ==
    [image_width |-> w, image_height |-> h, tile_width |-> tw,
     tile_height |-> th, wavelength |-> wl, eye_altitude |-> eye_altitude,
     y_first |-> y_first]

\* tbb::blocked_range: a range of more than one index may be split at
\* begin + (end - begin) / 2, and each half again; the kernel runs once on
\* every range that is not split further
RECURSIVE Splits(_, _)
Splits(begin, end) ==
    {<<[begin |-> begin, end |-> end]>>}
    \cup IF end - begin > 1
         THEN LET middle == begin + (end - begin) \div 2
              IN  {l \o r : l \in Splits(begin, middle), r \in Splits(middle, end)}
         ELSE {}

\* a kernel invocation before it starts
Task(range) ==
    [begin |-> range.begin, end |-> range.end, i |-> range.begin, px |-> 0,
     pc |-> "start", sampler |-> [state |-> 0, inc |-> 0],
     ray |-> Ray(0, <<0, 5>>), t_max |-> 0, local |-> 0]

\* an index computed with the wrong stride
PixelIndexByHeight(c, x, y) == y * c.image_height + x

\* size_t pixel_index = y * _image_width + x;
PixelIndex(c, x, y) == y * c.image_width + x

\* _buffer[pixel_index] = value; the element remembers how often and by
\* which tasks it was written
place_pixel(buf, c, x, y, value, t) ==
    LET k == PixelIndex(c, x, y) + 1
    IN  IF k \in DOMAIN buf
        THEN [buf EXCEPT ![k] = [value |-> value, writes |-> @.writes + 1,
                                 by |-> @.by \cup {t}]]
        ELSE buf

\* the px-th pixel of a tile in the order of render_tile: rows outermost
TilePixel(tile, px) ==
    [x |-> tile.x0 + (px % (tile.x1 - tile.x0)),
     y |-> tile.y0 + (px \div (tile.x1 - tile.x0))]

TilePixelCount(tile) == (tile.x1 - tile.x0) * (tile.y1 - tile.y0)

\* render_pixel up to the call of get_max_extinction: next_2d, sample_ray
\* and scene_intersect.  The two next_float() of next_2d are arguments of
\* one constructor call: which is drawn first is decided by the build.
PixelRay(c, y, sampler) ==
    LET r1 == next_float(sampler)
        r2 == next_float(r1.rng)
        ray == sample_ray(c, y, IF c.y_first THEN r1.out ELSE r2.out)
    IN  [ray |-> ray, t_max |-> scene_intersect(ray).t_max, sampler |-> r2.rng]

\* the task after the pixel px of its tile i: the next pixel, or the lock
AfterPixel(task, tile) ==
    IF task.px + 1 < TilePixelCount(tile)
    THEN [task EXCEPT !.px = task.px + 1, !.pc = "pixel"]
    ELSE [task EXCEPT !.pc = "lock"]

\* a lock that does not wait
MutexIgnored(mutex) == TRUE

\* std::scoped_lock lock(progress_mutex) can be taken
MutexFree(mutex) == mutex = 0

RenderSizes == {1, 2}
RenderConfigs ==
    {RenderConfig(w, h, tw, th, 1000, 1, y_first) :
        w \in RenderSizes, h \in RenderSizes, tw \in RenderSizes,
        th \in RenderSizes, y_first \in BOOLEAN}

\* the constructor, up to prepare_tiles, and create_scene
InitRender ==
    /\ pc = "construct"
    /\ cfg \in RenderConfigs
    /\ tiles = <<>>
    /\ atmospheres \in {<<atm>> : atm \in CacheInstances}
    /\ prev_wl = 0
    /\ prev_max_extinction = 0
    /\ gme = <<>>
    /\ query = QueryNone
    /\ GeomOff
    /\ WorkersOff
    /\ CallsOff

\* render() up to tbb::parallel_for, and the ranges parallel_for makes
render_begin ==
    /\ pc = "prepared"
    /\ \E split \in Splits(0, Len(tiles)) :
          /\ Len(split) <= MaxTasks
          /\ tasks' = [t \in 1..Len(split) |-> Task(split[t])]
          /\ gme' = [t \in 1..Len(split) |-> GmeIdle(1, cfg.wavelength)]
    /\ buffer' = [k \in 1..(cfg.image_width * cfg.image_height) |->
                      [value |-> 0, writes |-> 0, by |-> {}]]
    /\ progress_count' = 0
    /\ progress_mutex' = 0
    /\ pc' = "rendering"
    /\ UNCHANGED <<cfg, tiles, atmospheres, prev_wl, prev_max_extinction,
                   query, geomVars, callVars>>

\* Sampler sampler(range.begin(), range.end());
kernel_begin(t) ==
    /\ tasks[t].pc = "start"
    /\ tasks' = [tasks EXCEPT ![t].sampler = Sampler(tasks[t].begin, tasks[t].end),
                              ![t].pc = "pixel"]
    /\ UNCHANGED <<gme, prev_wl, prev_max_extinction, buffer, progress_count,
                   progress_mutex>>

\* render_pixel, to the call of get_max_extinction in transmittance; a ray
\* that meets nothing gives the value 0 at once
render_pixel_begin(t) ==
    /\ tasks[t].pc = "pixel"
    /\ \E tile \in {tiles[tasks[t].i + 1]} :
       \E p \in {TilePixel(tile, tasks[t].px)} :
       \E r \in {PixelRay(cfg, p.y, tasks[t].sampler)} :
       LET drawn == [tasks[t] EXCEPT !.sampler = r.sampler, !.ray = r.ray,
                                     !.t_max = r.t_max]
       IN  IF r.t_max < 0
           THEN /\ buffer' = place_pixel(buffer, cfg, p.x, p.y, 0, t)
                /\ tasks' = [tasks EXCEPT ![t] = AfterPixel(drawn, tile)]
                /\ UNCHANGED gme
           ELSE /\ gme_call(t, 1, cfg.wavelength)
                /\ tasks' = [tasks EXCEPT ![t] = [drawn EXCEPT !.pc = "majorant"]]
                /\ UNCHANGED buffer
    /\ UNCHANGED <<prev_wl, prev_max_extinction, progress_count, progress_mutex>>

\* the rest of transmittance with the majorant returned, and place_pixel
render_pixel_end(t) ==
    /\ tasks[t].pc = "majorant"
    /\ gme[t].pc = "returned"
    /\ \E tile \in {tiles[tasks[t].i + 1]} :
       \E p \in {TilePixel(tile, tasks[t].px)} :
       \E r \in {transmittance(atmospheres[1], tasks[t].sampler, tasks[t].ray,
                                tasks[t].t_max, cfg.wavelength, gme[t].ret)} :
       LET drawn == [tasks[t] EXCEPT !.sampler = r.sampler]
       IN  IF r.hung
           THEN /\ tasks' = [tasks EXCEPT ![t] = [drawn EXCEPT !.pc = "hung"]]
                /\ UNCHANGED buffer
           ELSE /\ buffer' = place_pixel(buffer, cfg, p.x, p.y, r.value, t)
                /\ tasks' = [tasks EXCEPT ![t] = AfterPixel(drawn, tile)]
    /\ UNCHANGED <<gme, prev_wl, prev_max_extinction, progress_count,
                   progress_mutex>>

\* std::scoped_lock lock(progress_mutex); and the load of ++progress_count
progress_lock(t) ==
    /\ tasks[t].pc = "lock"
    /\ MutexFree(progress_mutex)
    /\ progress_mutex' = t
    /\ tasks' = [tasks EXCEPT ![t].local = progress_count, ![t].pc = "locked"]
    /\ UNCHANGED <<gme, prev_wl, prev_max_extinction, buffer, progress_count>>

\* the store of ++progress_count, the end of the lock's scope and ++i
progress_unlock(t) ==
    /\ tasks[t].pc = "locked"
    /\ progress_count' = tasks[t].local + 1
    /\ progress_mutex' = 0
    /\ tasks' = [tasks EXCEPT ![t].i = tasks[t].i + 1, ![t].px = 0,
                              ![t].pc = IF tasks[t].i + 1 < tasks[t].end
                                        THEN "pixel" ELSE "done"]
    /\ UNCHANGED <<gme, prev_wl, prev_max_extinction, buffer>>

\* get_max_extinction, one access at a time, called by task t
render_majorant(t) ==
    /\ \/ gme_check(t)
       \/ gme_hit(t)
       \/ gme_store_wl(t)
       \/ gme_store_max(t)
    /\ UNCHANGED workerVars

\* tbb::parallel_for returns when the kernel has returned on every range
render_end ==
    /\ pc = "rendering"
    /\ \A t \in 1..Len(tasks) : tasks[t].pc = "done"
    /\ pc' = "rendered"
    /\ UNCHANGED <<cfg, tiles, atmospheres, prev_wl, prev_max_extinction, gme,
                   query, geomVars, workerVars, callVars>>

NextRender ==
    \/ prepare_tiles
    \/ render_begin
    \/ render_end
    \/ /\ pc = "rendering"
       /\ \E t \in 1..Len(tasks) :
             \/ kernel_begin(t)
             \/ render_pixel_begin(t)
             \/ render_pixel_end(t)
             \/ progress_lock(t)
             \/ progress_unlock(t)
             \/ render_majorant(t)
       /\ UNCHANGED <<pc, cfg, tiles, atmospheres, query, geomVars, callVars>>

SpecRender == InitRender /\ [][NextRender]_vars

\* the tasks whose range holds the index of a tile containing the pixel
OwnersOf(x, y) ==
    {t \in 1..Len(tasks) :
        \E i \in tasks[t].begin..(tasks[t].end - 1) : InTile(tiles[i + 1], x, y)}

\* C2: no element of the buffer is ever written by two tasks or twice, an
\* element is only written by the task whose range holds the tile of its
\* pixel, and when render() returns every pixel of the image has been
\* written exactly once, by that task.
C2_PixelsWrittenOnce ==
    pc \in {"rendering", "rendered"} =>
        /\ Len(buffer) = cfg.image_width * cfg.image_height
        /\ \A x \in 0..(cfg.image_width - 1), y \in 0..(cfg.image_height - 1) :
              LET e == buffer[y * cfg.image_width + x + 1]
              IN  /\ e.writes <= 1
                  /\ Cardinality(OwnersOf(x, y)) = 1
                  /\ e.by \subseteq OwnersOf(x, y)
                  /\ pc = "rendered" => e.writes = 1 /\ e.by = OwnersOf(x, y)

\* a finished render of an image that is not square, of several tiles, by
\* two tasks that have both written pixels
C2_Witness ==
    /\ pc = "rendered"
    /\ cfg.image_width # cfg.image_height
    /\ Len(tiles) >= 2
    /\ Len(tasks) >= 2
    /\ \A t \in 1..Len(tasks) : \E k \in 1..Len(buffer) : buffer[k].by = {t}

\* the tiles task t has completed: those before its index i
RECURSIVE CompletedTiles(_)
CompletedTiles(n) ==
    IF n = 0 THEN 0
    ELSE (tasks[n].i - tasks[n].begin) + CompletedTiles(n - 1)

\* every pixel of the tile has been written
TileWritten(tile) ==
    \A x \in tile.x0..(tile.x1 - 1), y \in tile.y0..(tile.y1 - 1) :
        buffer[y * cfg.image_width + x + 1].writes >= 1

\* C4: the progress counter counts the completed tiles: it is incremented
\* once per completed tile, it never exceeds the number of tiles and equals
\* it when render() returns; and every change of it is an increment by one,
\* made by the task that holds progress_mutex, after all the pixels of the
\* tile it has just rendered have been written.
C4_ProgressCountedUnderLock ==
    /\ [](/\ progress_count = CompletedTiles(Len(tasks))
          /\ progress_count <= Len(tiles)
          /\ pc = "rendered" => progress_count = Len(tiles))
    /\ [][progress_count' # progress_count =>
             /\ progress_count' = progress_count + 1
             /\ progress_mutex \in 1..Len(tasks)
             /\ tasks[progress_mutex].pc = "locked"
             /\ tasks'[progress_mutex].i = tasks[progress_mutex].i + 1
             /\ TileWritten(tiles[tasks[progress_mutex].i + 1])]_vars

\* a finished render in which two tasks have both counted tiles
C4_Witness ==
    /\ pc = "rendered"
    /\ Len(tasks) >= 2
    /\ progress_count = Len(tiles)
    /\ \A t \in 1..Len(tasks) : tasks[t].i > tasks[t].begin

\* the buffer after the kernel has run alone on the range of a task, from
\* the pixel px of tile i on: what the task writes when nothing else runs,
\* every call of get_max_extinction returning get_extinction(0, wl)
RECURSIVE RangeAlone(_, _, _, _, _)
RangeAlone(task, i, px, sampler, buf) ==
    IF i >= task.end THEN buf
    ELSE LET tile == tiles[i + 1]
             p == TilePixel(tile, px)
             r == PixelRay(cfg, p.y, sampler)
             v == IF r.t_max < 0
                  THEN [value |-> 0, sampler |-> r.sampler]
                  ELSE transmittance(atmospheres[1], r.sampler, r.ray, r.t_max,
                                     cfg.wavelength,
                                     get_extinction(atmospheres[1], 0,
                                                    cfg.wavelength))
             written == [buf EXCEPT ![PixelIndex(cfg, p.x, p.y) + 1] = v.value]
         IN  IF px + 1 < TilePixelCount(tile)
             THEN RangeAlone(task, i, px + 1, v.sampler, written)
             ELSE RangeAlone(task, i + 1, 0, v.sampler, written)

\* the buffer after the kernel has run on the ranges one after the other
RECURSIVE RangesInTurn(_)
RangesInTurn(n) ==
    IF n = 0 THEN [k \in 1..Len(buffer) |-> 0]
    ELSE RangeAlone(tasks[n], tasks[n].begin, 0,
                    Sampler(tasks[n].begin, tasks[n].end), RangesInTurn(n - 1))

\* C5: for a fixed scene, configuration and split into ranges, the final
\* buffer is the same whatever the interleaving of the ranges: it is the
\* buffer obtained by running the ranges one after the other.
C5_BufferIndependentOfInterleaving ==
    pc = "rendered" =>
        \A k \in 1..Len(buffer) :
            buffer[k].value = RangesInTurn(Len(tasks))[k]

\* the failing case of C5: a finished render of two ranges in which a pixel
\* differs from the one-after-the-other render, written by a task whose last
\* call of get_max_extinction returned the initial 0 of the cache
C5_Witness ==
    /\ pc = "rendered"
    /\ Len(tasks) >= 2
    /\ \E k \in 1..Len(buffer), t \in 1..Len(tasks) :
          /\ buffer[k].value # RangesInTurn(Len(tasks))[k]
          /\ buffer[k].by = {t}
          /\ gme[t].ret = 0

(***************************************************************************)
(* Light source  (lightsource.hxx:26-53).  The Sun is a DirectionalLight:  *)
(* sample ignores its 2D sample, sets wi to the direction of the light and *)
(* returns eval(wl).  lightsource.cxx, with the irradiance table of        *)
(* Sun::eval, is not part of the sources at hand; the radiance is a        *)
(* positive number of the model, in units of 1e-4.                         *)
(***************************************************************************)
Sun_eval(wl) == 20000

DirectionalLight_sample(direction, wl) == [wi |-> direction, L |-> Sun_eval(wl)]

(***************************************************************************)
(* Sampler::next_2d  (sampler.hxx:98-101).  The two next_float() are       *)
(* arguments of one constructor call: which is drawn first is decided by   *)
(* the build (y_first).  Values in quarters.                               *)
(***************************************************************************)
next_2d(sampler, y_first) ==
    LET r1 == next_float(sampler)
        r2 == next_float(r1.rng)
    IN  [x |-> IF y_first THEN r2.out ELSE r1.out,
         y |-> IF y_first THEN r1.out ELSE r2.out,
         rng |-> r2.rng]

(***************************************************************************)
(* Directions sampled by the path tracer  (integrator.cxx:56-76).  In the  *)
(* model of the vertical plane a sampled direction is the direction of the *)
(* plane with the sampled polar cosine, to the nearest of the cosines 0,   *)
(* 3/5, 4/5 and 1; the azimuth phi = 2 pi s.x gives the side: towards +x   *)
(* for s.x < 1/2 and towards -x otherwise.                                 *)
(***************************************************************************)
\* +1 or -1
Side(s) == IF s.x < 2 THEN 1 ELSE 0 - 1

\* cos_theta = s.y * 2 - 1: -1, -1/2, 0, 1/2 for s.y = 0, 1/4, 1/2, 3/4
sample_uniform_sphere(s) ==
    LET cos_theta == <<0 - 5, 0 - 3, 0, 3>>[s.y + 1]
    IN  <<Side(s) * sqrtf(25 - cos_theta * cos_theta), cos_theta>>

\* cos_theta = sqrtf(s.y): 0, 0.5, 0.71, 0.87 for s.y = 0, 1/4, 1/2, 3/4; the
\* result is <<sin_theta, cos_theta>> in the frame of the normal
sample_cosine_weighted_hemisphere(s) ==
    LET cos_theta == <<0, 3, 4, 4>>[s.y + 1]
    IN  <<Side(s) * sqrtf(25 - cos_theta * cos_theta), cos_theta>>

\* a / b rounded to the nearest whole number (b > 0)
RoundDiv(a, b) == (2 * a + b) \div (2 * b)

\* the direction of Directions nearest to the vector v
NearestDirection(v) ==
    CHOOSE d \in Directions :
        \A e \in Directions : d[1] * v[1] + d[2] * v[2] >= e[1] * v[1] + e[2] * v[2]

\* wi = normalize(s * wi.x + t * wi.y + n * wi.z): the local direction
\* <<sin, cos>> taken to the world frame, the normal being oc / |oc| and the
\* tangent of the plane (n.z, -n.x)
ToWorld(local, oc) ==
    NearestDirection(<<oc[2] * local[1] + oc[1] * local[2],
                       oc[2] * local[2] - oc[1] * local[1]>>)

(***************************************************************************)
(* sample_sun  (integrator.cxx:170-185), from the point p = <<x, z>>.      *)
(***************************************************************************)
sample_sun(atm, direction, sampler, y_first, p, wl, majorant) ==
    LET light == DirectionalLight_sample(direction, wl)
        drawn == next_2d(sampler, y_first).rng
        shadow_ray == RayFrom(p[1], p[2], light.wi)
        earth_t == ray_sphere_intersection(shadow_ray, EARTH_RADIUS)
    IN  IF earth_t < 0
        THEN LET tr == transmittance(
                           atm, drawn, shadow_ray,
                           ray_sphere_intersection(shadow_ray, ATMOSPHERE_RADIUS),
                           wl, majorant)
             IN  [shadow_ray_dir |-> light.wi, L |-> light.L, occluded |-> FALSE,
                  beam_transmittance |-> tr.value, hung |-> tr.hung,
                  sampler |-> tr.sampler]
        ELSE [shadow_ray_dir |-> light.wi, L |-> light.L, occluded |-> TRUE,
              beam_transmittance |-> 0, hung |-> FALSE, sampler |-> drawn]

(***************************************************************************)
(* TransmittanceIntegrator::Li  (integrator.cxx:191-201) and               *)
(* PathTracingIntegrator::Li  (integrator.cxx:211-344).  A call is the     *)
(* record p: the scene and the arguments (atmosphere, sun, albedo, wl,     *)
(* max_order, only_ms, ray0, first), and the locals of Li (ray, sampler,   *)
(* order, L, throughput, t_max, earth, t).  L, throughput and the albedo   *)
(* are in units of 1e-4.  nee lists the next-event contributions added to  *)
(* L, event says how the call has ended.                                   *)
(***************************************************************************)
\* what get_max_extinction(wl) returns to the one thread of the call, for
\* its fixed wavelength above 0: the ground-level extinction
LiMajorant(p) == get_extinction(p.atmosphere, 0, p.wl)

\* return L;
LiReturned(p, event) == [p EXCEPT !.phase = "returned", !.event = event]

\* a TransmittanceIntegrator that returns 0 for a segment ending on the ground
TransmittanceIntegrator_Li_GroundBlack(p) ==
    LET si == scene_intersect(p.ray)
    IN  IF si.t_max < 0 \/ si.intersected_earth
        THEN LiReturned([p EXCEPT !.t_max = si.t_max, !.L = 0], "space")
        ELSE LET tr == transmittance(p.atmosphere, p.sampler, p.ray, si.t_max,
                                     p.wl, LiMajorant(p))
             IN  [p EXCEPT !.phase = IF tr.hung THEN "hung" ELSE "returned",
                           !.event = "transmittance", !.t_max = si.t_max,
                           !.earth = si.intersected_earth, !.L = tr.value,
                           !.sampler = tr.sampler]

TransmittanceIntegrator_Li(p) ==
    LET si == scene_intersect(p.ray)
    IN  IF si.t_max < 0
        THEN LiReturned([p EXCEPT !.t_max = si.t_max, !.L = 0], "space")
        ELSE LET tr == transmittance(p.atmosphere, p.sampler, p.ray, si.t_max,
                                     p.wl, LiMajorant(p))
             IN  [p EXCEPT !.phase = IF tr.hung THEN "hung" ELSE "returned",
                           !.event = "transmittance", !.t_max = si.t_max,
                           !.earth = si.intersected_earth, !.L = tr.value,
                           !.sampler = tr.sampler]

\* the end of the free flight: no interaction and no ground, the ground, or
\* a collision in the medium at the distance s.t
LiFlightEnd(p, si, s) ==
    LET q == [p EXCEPT !.t_max = si.t_max, !.earth = si.intersected_earth,
                       !.t = s.t, !.sampler = s.sampler]
    IN  IF s.hung \/ s.nan THEN [q EXCEPT !.phase = "hung"]
        ELSE IF s.t < 0
        THEN IF ~si.intersected_earth THEN LiReturned(q, "exit")
             ELSE [q EXCEPT !.phase = "surface"]
        ELSE [q EXCEPT !.phase = "medium"]

\* a loop test that lets one more bounce through
LiFlight_OneMore(p) ==
    IF p.order > p.max_order + 1 THEN LiReturned(p, "max_order")
    ELSE LET si == scene_intersect(p.ray)
         IN  IF si.t_max < 0
             THEN LiReturned([p EXCEPT !.t_max = si.t_max,
                                       !.earth = si.intersected_earth], "space")
             ELSE LiFlightEnd(p, si,
                              sample_interaction(p.atmosphere, p.sampler, p.ray,
                                                 si.t_max, p.wl, LiMajorant(p)))

\* the loop test, scene_intersect and sample_interaction (lines 222-235)
LiFlight(p) ==
    IF p.order > p.max_order THEN LiReturned(p, "max_order")
    ELSE LET si == scene_intersect(p.ray)
         IN  IF si.t_max < 0
             THEN LiReturned([p EXCEPT !.t_max = si.t_max,
                                       !.earth = si.intersected_earth], "space")
             ELSE LiFlightEnd(p, si,
                              sample_interaction(p.atmosphere, p.sampler, p.ray,
                                                 si.t_max, p.wl, LiMajorant(p)))

\* an addition to L that does not look at _only_ms
LiAdd_Ungated(p, kind, contribution) ==
    [p EXCEPT !.L = p.L + contribution,
              !.nee = Append(p.nee, [order |-> p.order, kind |-> kind,
                                     value |-> contribution])]

\* an addition to L that the flag _only_ms suppresses at every order
LiAdd_FlagSuppressesAll(p, kind, contribution) ==
    IF ~p.only_ms
    THEN [p EXCEPT !.L = p.L + contribution,
                   !.nee = Append(p.nee, [order |-> p.order, kind |-> kind,
                                          value |-> contribution])]
    ELSE p

\* L += contribution, unless only the multiple scattering is wanted and this
\* is the first order
LiAdd(p, kind, contribution) ==
    IF ~p.only_ms \/ p.order > 1
    THEN [p EXCEPT !.L = p.L + contribution,
                   !.nee = Append(p.nee, [order |-> p.order, kind |-> kind,
                                          value |-> contribution])]
    ELSE p

\* the point ray.o + ray.d * t, as <<x, z>> to the nearest km
PointAt(ray, t) ==
    <<ray.o_x + RoundDiv(ray.d[1] * t, 25), ray.o_z + RoundDiv(ray.d[2] * t, 25)>>

\* the surface interaction once the sun has been sampled from the shading
\* point (lines 264-288); oc is the vector from the centre of the Earth to
\* the point where the ray met the ground, r its length
LiSurfaceLit(p, shading_point, oc, r, sun) ==
    LET bsdf == MulDiv(p.albedo, 3183, 10000)
        ndotl == ((oc[1] * sun.shadow_ray_dir[1] + oc[2] * sun.shadow_ray_dir[2])
                      * 2000) \div r
        contribution ==
            MulDiv(MulDiv(MulDiv(MulDiv(p.throughput, sun.L, 10000),
                                 bsdf, 10000),
                          sun.beam_transmittance, 10000),
                   ndotl, 10000)
        s == next_2d(sun.sampler, p.y_first)
        wi == ToWorld(sample_cosine_weighted_hemisphere(s), oc)
    IN  IF sun.hung THEN [p EXCEPT !.phase = "hung"]
        ELSE [LiAdd(p, "surface", contribution) EXCEPT
                 !.throughput = MulDiv(p.throughput, bsdf, 10000),
                 !.sampler = s.rng,
                 !.ray = RayFrom(shading_point[1], shading_point[2], wi),
                 !.phase = "roulette"]

\* the surface interaction (lines 253-263): shading_point = ray.o + ray.d *
\* t_max, n = normalize(shading_point - EARTH_CENTER), shading_point += n.
\* n has the length of one unit, which is 1 km in the model and 1 m in the
\* program.
LiSurfaceAt(p, hit, oc, r) ==
    LET shading_point == <<hit[1] + RoundDiv(oc[1], r), hit[2] + RoundDiv(oc[2], r)>>
    IN  LiSurfaceLit(p, shading_point, oc, r,
                     sample_sun(p.atmosphere, p.sun, p.sampler, p.y_first,
                                shading_point, p.wl, LiMajorant(p)))

LiSurface(p) ==
    LET hit == PointAt(p.ray, p.t_max)
        oc == <<hit[1], hit[2] + EARTH_RADIUS>>
    IN  LiSurfaceAt(p, hit, oc, sqrtf(oc[1] * oc[1] + oc[2] * oc[2]))

\* a scattering event that weights the throughput with the phase function
LiScatterLit_PhaseWeighted(p, interaction_point, height, scattering_albedo, sun) ==
    LET sample == next_float(sun.sampler)
        phase == phase_eval(p.atmosphere, height, sample.out,
                            0 - (p.ray.d[1] * sun.shadow_ray_dir[1]
                                 + p.ray.d[2] * sun.shadow_ray_dir[2]),
                            p.wl)
        contribution ==
            MulDiv(MulDiv(MulDiv(MulDiv(p.throughput, sun.L, 10000),
                                 phase, 10000),
                          sun.beam_transmittance, 10000),
                   scattering_albedo, 10000)
        s == next_2d(sample.rng, p.y_first)
    IN  IF sun.hung THEN [p EXCEPT !.phase = "hung"]
        ELSE [LiAdd(p, "medium", contribution) EXCEPT
                 !.throughput = MulDiv(p.throughput, phase, 10000),
                 !.sampler = s.rng,
                 !.ray = RayFrom(interaction_point[1], interaction_point[2],
                                 sample_uniform_sphere(s)),
                 !.phase = "roulette"]

\* the scattering event once the sun has been sampled (lines 306-321)
LiScatterLit(p, interaction_point, height, scattering_albedo, sun) ==
    LET sample == next_float(sun.sampler)
        phase == phase_eval(p.atmosphere, height, sample.out,
                            0 - (p.ray.d[1] * sun.shadow_ray_dir[1]
                                 + p.ray.d[2] * sun.shadow_ray_dir[2]),
                            p.wl)
        contribution ==
            MulDiv(MulDiv(MulDiv(MulDiv(p.throughput, sun.L, 10000),
                                 phase, 10000),
                          sun.beam_transmittance, 10000),
                   scattering_albedo, 10000)
        s == next_2d(sample.rng, p.y_first)
    IN  IF sun.hung THEN [p EXCEPT !.phase = "hung"]
        ELSE [LiAdd(p, "medium", contribution) EXCEPT
                 !.sampler = s.rng,
                 !.ray = RayFrom(interaction_point[1], interaction_point[2],
                                 sample_uniform_sphere(s)),
                 !.phase = "roulette"]

\* a medium interaction whose absorption event still adds to L
LiMediumAt_AbsorptionAdds(p, interaction_point, height, scattering_albedo, drawn) ==
    IF drawn.out * 2500 < scattering_albedo
    THEN LiScatterLit(p, interaction_point, height, scattering_albedo,
                      sample_sun(p.atmosphere, p.sun, drawn.rng, p.y_first,
                                 interaction_point, p.wl, LiMajorant(p)))
    ELSE LiReturned([LiAdd_Ungated(p, "medium", 1) EXCEPT !.sampler = drawn.rng],
                    "absorbed")

\* the medium interaction (lines 294-325): the draw against the scattering
\* albedo (in quarters against 1e-4), then absorption or scattering
LiMediumAt(p, interaction_point, height, scattering_albedo, drawn) ==
    IF drawn.out * 2500 < scattering_albedo
    THEN LiScatterLit(p, interaction_point, height, scattering_albedo,
                      sample_sun(p.atmosphere, p.sun, drawn.rng, p.y_first,
                                 interaction_point, p.wl, LiMajorant(p)))
    ELSE LiReturned([p EXCEPT !.sampler = drawn.rng], "absorbed")

LiMedium(p) ==
    LiMediumAt(p, PointAt(p.ray, p.t), height_at_point(p.ray, p.t),
               get_scattering_albedo(p.atmosphere, height_at_point(p.ray, p.t),
                                     p.wl),
               next_float(p.sampler))

\* a guard that ends the path below a throughput of 0.1
LiGuard_Threshold(p) ==
    IF p.throughput <= 1000 THEN LiReturned(p, "exhausted")
    ELSE [p EXCEPT !.order = p.order + 1, !.phase = "loop"]

\* the guard on the throughput and ++order (lines 337-341, 222)
LiGuard(p) ==
    IF p.throughput <= 0 THEN LiReturned(p, "exhausted")
    ELSE [p EXCEPT !.order = p.order + 1, !.phase = "loop"]

\* a roulette that starts one bounce early
LiRoulette_FromOrderFive(p) ==
    IF p.order > 4
    THEN LET q == IF 10000 - p.throughput > 500 THEN 10000 - p.throughput ELSE 500
             drawn == next_float(p.sampler)
         IN  IF drawn.out * 2500 < q
             THEN LiReturned([p EXCEPT !.sampler = drawn.rng], "roulette")
             ELSE LiGuard([p EXCEPT !.sampler = drawn.rng,
                                    !.throughput = MulDiv(p.throughput, 10000,
                                                          10000 - q)])
    ELSE LiGuard(p)

\* the Russian roulette (lines 330-335): q = fmaxf(0.05f, 1.0f - throughput)
LiRoulette(p) ==
    IF p.order > 5
    THEN LET q == IF 10000 - p.throughput > 500 THEN 10000 - p.throughput ELSE 500
             drawn == next_float(p.sampler)
         IN  IF drawn.out * 2500 < q
             THEN LiReturned([p EXCEPT !.sampler = drawn.rng], "roulette")
             ELSE LiGuard([p EXCEPT !.sampler = drawn.rng,
                                    !.throughput = MulDiv(p.throughput, 10000,
                                                          10000 - q)])
    ELSE LiGuard(p)

\* one step of PathTracingIntegrator::Li from the position p.phase
LiStep(p) ==
    CASE p.phase = "loop"     -> LiFlight(p)
      [] p.phase = "surface"  -> LiSurface(p)
      [] p.phase = "medium"   -> LiMedium(p)
      [] p.phase = "roulette" -> LiRoulette(p)

\* Ray ray = ray_; float L = 0.0f; float throughput = 1.0f; int order = 1;
LiEntered(p) ==
    [p EXCEPT !.phase = "loop", !.ray = p.ray0, !.sampler = p.first,
              !.order = 1, !.L = 0, !.throughput = 10000, !.nee = <<>>]

\* PathTracingIntegrator::Li run to its end from the position of p
RECURSIVE LiRun(_)
LiRun(p) == IF p.phase \in {"returned", "hung"} THEN p ELSE LiRun(LiStep(p))

\* the same call with another _max_order
PathTracingLi(p, max_order) ==
    LiRun(LiEntered([p EXCEPT !.max_order = max_order]))

(***************************************************************************)
(* Specification SpecLi: one call of Integrator::Li, for either            *)
(* integrator, on a scene and a camera ray, step by step.                  *)
(***************************************************************************)
MaxOrder == 3
LiWavelength == 1000
LiAtmospheres ==
    {GuimeraAtmosphere(0, 1, "none", cs) : cs \in AerosolCrossSectionTables}
    \cup {GuimeraAtmosphere(6, 3, "urban", cs) : cs \in AerosolCrossSectionTables}
\* the direction towards the sun: on the horizon (the default elevation, 0),
\* and 53 degrees above it
LiSuns == {<<0 - 5, 0>>, <<3, 4>>}
\* the default albedo 0.3, and a black ground
LiAlbedos == {0, 3000}
LiRays ==
    {Ray(o_z, d) : o_z \in {1, 50}, d \in {<<0, 5>>, <<3, 0 - 4>>, <<0, 0 - 5>>}}
    \cup {Ray(101, <<0, 5>>), Ray(101, <<0, 0 - 5>>)}
LiSamplers == {Sampler(begin, end) : begin \in 0..3, end \in 1..2}

\* the state of a call before its first statement
LiCall(integrator, atm, sun, albedo, max_order, only_ms, y_first, ray, sampler) ==
    [phase |-> "call", integrator |-> integrator, atmosphere |-> atm,
     sun |-> sun, albedo |-> albedo, wl |-> LiWavelength,
     max_order |-> max_order, only_ms |-> only_ms, y_first |-> y_first,
     ray0 |-> ray, first |-> sampler, ray |-> ray, sampler |-> sampler,
     order |-> 1, L |-> 0, throughput |-> 10000, t_max |-> 0, earth |-> FALSE,
     t |-> 0, event |-> "none", nee |-> <<>>]

InitLi ==
    /\ pc = "off"
    /\ cfg = Config(1, 1, 1, 1)
    /\ tiles = <<>>
    /\ atmospheres = <<>>
    /\ prev_wl = 0
    /\ prev_max_extinction = 0
    /\ gme = <<>>
    /\ query = [phase |-> "none"]
    /\ GeomOff
    /\ WorkersOff
    /\ SceneOff /\ LutOff /\ TrackOff
    /\ \E atm \in LiAtmospheres, sun \in LiSuns, ray \in LiRays,
          sampler \in LiSamplers :
          \/ li = LiCall("transmittance", atm, sun, 3000, 0, FALSE, FALSE,
                         ray, sampler)
          \/ \E albedo \in LiAlbedos, max_order \in 0..MaxOrder,
                only_ms \in BOOLEAN, y_first \in BOOLEAN :
                li = LiCall("path", atm, sun, albedo, max_order, only_ms,
                            y_first, ray, sampler)

\* the call of TransmittanceIntegrator::Li: it returns L, or never returns
TransmittanceIntegrator_Li_call ==
    /\ li.phase = "call"
    /\ li.integrator = "transmittance"
    /\ \E r \in {TransmittanceIntegrator_Li(li)} : li' = r

\* PathTracingIntegrator::Li is entered
PathTracingIntegrator_Li_enter ==
    /\ li.phase = "call"
    /\ li.integrator = "path"
    /\ li' = LiEntered(li)

\* the loop test and the free flight
Li_flight ==
    /\ li.phase = "loop"
    /\ \E r \in {LiFlight(li)} : li' = r

\* the surface interaction
Li_surface ==
    /\ li.phase = "surface"
    /\ \E r \in {LiSurface(li)} : li' = r

\* the medium interaction
Li_medium ==
    /\ li.phase = "medium"
    /\ \E r \in {LiMedium(li)} : li' = r

\* the Russian roulette and the end of the iteration
Li_roulette ==
    /\ li.phase = "roulette"
    /\ \E r \in {LiRoulette(li)} : li' = r

NextLi ==
    /\ \/ TransmittanceIntegrator_Li_call
       \/ PathTracingIntegrator_Li_enter
       \/ Li_flight
       \/ Li_surface
       \/ Li_medium
       \/ Li_roulette
    /\ UNCHANGED <<pc, cfg, tiles, atmospheres, prev_wl, prev_max_extinction,
                   gme, query, isect, workerVars, scene, lut, track>>

SpecLi == InitLi /\ [][NextLi]_vars

\* C14: when TransmittanceIntegrator::Li has returned, its value is 0 and no
\* random number has been drawn if scene_intersect gave no bound (t_max < 0);
\* otherwise its value and the state of its sampler are those of
\* transmittance over [0, t_max], on the ground or not: no draw was made for
\* the light source or for a direction, and nothing was added for the sun.
C14_TransmittanceIntegratorReturnsTransmittance ==
    (li.phase = "returned" /\ li.integrator = "transmittance") =>
        LET si == scene_intersect(li.ray0)
            tr == transmittance(li.atmosphere, li.first, li.ray0, si.t_max, li.wl,
                                LiMajorant(li))
        IN  /\ li.nee = <<>>
            /\ li.ray = li.ray0
            /\ IF si.t_max < 0
               THEN li.L = 0 /\ li.sampler = li.first
               ELSE li.L = tr.value /\ li.sampler = tr.sampler

\* a segment that ends on the ground has returned a transmittance that is
\* neither 0 nor 1
C14_Witness ==
    /\ li.phase = "returned"
    /\ li.integrator = "transmittance"
    /\ li.earth
    /\ li.t_max > 0
    /\ li.L > 0
    /\ li.L < 10000

\* the sum of the contributions nee[1..k]
RECURSIVE NeeSum(_, _)
NeeSum(nee, k) == IF k = 0 THEN 0 ELSE NeeSum(nee, k - 1) + nee[k].value

\* C15: in a call of PathTracingIntegrator::Li the next-event contributions
\* are at most max_order, each of another order (bounce) of 1..max_order in
\* increasing order, and L is their sum; with max_order = 1 only a
\* contribution of the first order is ever added; with max_order = 1 and
\* the only-multiple-scattering flag nothing is added and Li returns 0.
C15_AtMostMaxOrderContributions ==
    (li.phase # "off" /\ li.integrator = "path" /\ li.phase # "call") =>
        /\ Len(li.nee) <= li.max_order
        /\ \A k \in 1..Len(li.nee) : li.nee[k].order \in 1..li.max_order
        /\ \A k \in 1..(Len(li.nee) - 1) : li.nee[k].order < li.nee[k + 1].order
        /\ li.L = NeeSum(li.nee, Len(li.nee))
        /\ li.max_order = 1 => \A k \in 1..Len(li.nee) : li.nee[k].order = 1
        /\ (li.max_order = 1 /\ li.only_ms) => (li.nee = <<>> /\ li.L = 0)

\* a call with max_order = 1 and the only-multiple-scattering flag has
\* returned after its one bounce, where the sun lit the ground or the medium
C15_Witness ==
    /\ li.phase = "returned"
    /\ li.integrator = "path"
    /\ li.max_order = 1
    /\ li.only_ms
    /\ li.event = "max_order"
    /\ li.order = 2
    /\ li.L = 0
    /\ PathTracingLi(li, 1).L = 0
    /\ PathTracingLi([li EXCEPT !.only_ms = FALSE], 1).L > 0

\* C16: every next-event contribution added to L is >= 0, so that L never
\* decreases along a path, and for the same ray and random stream Li with
\* max_order = n + 1 is not below Li with max_order = n.
C16_ContributionsNonNegative ==
    (li.phase # "off" /\ li.integrator = "path") =>
        /\ \A k \in 1..Len(li.nee) : li.nee[k].value >= 0
        /\ li.phase = "call" =>
               \A n \in 0..(MaxOrder - 1) :
                   PathTracingLi(li, n + 1).L >= PathTracingLi(li, n).L

\* the ray has met the ground where the sun is just below the local horizon:
\* the shadow ray from the shading point, lifted off the ground by n, clears
\* the ground, dot(n, shadow_ray_dir) is below 0 and so is what was added to L
C16_Witness ==
    /\ li.phase = "roulette"
    /\ li.integrator = "path"
    /\ li.earth
    /\ li.t < 0
    /\ li.order = 1
    /\ Len(li.nee) = 1
    /\ li.nee[1].kind = "surface"
    /\ li.nee[1].value < 0
    /\ li.L < 0
    /\ RayC(li.ray, EARTH_RADIUS) > 0
    /\ ray_sphere_intersection(RayFrom(li.ray.o_x, li.ray.o_z, li.sun),
                               EARTH_RADIUS) < 0
    /\ RayOc(li.ray)[1] * li.sun[1] + RayOc(li.ray)[2] * li.sun[2] < 0

(***************************************************************************)
(* Specification SpecScene: the constructor of Renderer  (renderer.cxx:    *)
(* 66-78) with create_scene  (renderer.cxx:134-171) position by position,  *)
(* on every combination of the three selectors, and render() on the        *)
(* Renderer that the constructor has made.  scene holds the selectors      *)
(* (args), the members of *_scene that are set ("null" before), the        *)
(* message of the runtime_error thrown, and the number of tiles rendered.  *)
(* A throw leaves the constructor: the members are destroyed and there is  *)
(* no Renderer (pc = "failed").                                            *)
(***************************************************************************)
SceneSelectors == (0 - 1)..2
SceneSizes == {1, 2}

SceneArgs(atmospheric_model, camera, integrator) ==
    [atmospheric_model |-> atmospheric_model, camera |-> camera,
     integrator |-> integrator]

InitScene ==
    /\ pc = "construct"
    /\ \E w \in SceneSizes, h \in SceneSizes, tw \in SceneSizes, th \in SceneSizes :
           cfg = Config(w, h, tw, th)
    /\ tiles = <<>>
    /\ AtmosOff
    /\ GeomOff
    /\ WorkersOff
    /\ LutOff /\ TrackOff /\ LiOff
    /\ \E atmospheric_model \in SceneSelectors, camera \in SceneSelectors,
          integrator \in SceneSelectors :
           scene = [phase |-> "args",
                    args |-> SceneArgs(atmospheric_model, camera, integrator),
                    light |-> "null", atmosphere |-> "null", camera |-> "null",
                    integrator |-> "null", ground_albedo |-> "unset",
                    error |-> "none", rendered |-> 0]

\* _buffer.resize(...); prepare_tiles();
scene_prepare_tiles ==
    /\ pc = "construct"
    /\ scene.phase = "args"
    /\ tiles' = PrepareTiles(cfg)
    /\ scene' = [scene EXCEPT !.phase = "prepared"]
    /\ UNCHANGED pc

\* throw std::runtime_error(what)
Thrown(s, what) == [s EXCEPT !.phase = "thrown", !.error = what]

\* _scene = make_unique<Scene>(); _scene->light = make_unique<Sun>(...);
create_scene_light ==
    /\ pc = "construct"
    /\ scene.phase = "prepared"
    /\ scene' = [scene EXCEPT !.phase = "light", !.light = "Sun"]
    /\ UNCHANGED <<pc, tiles>>

\* a switch on the atmospheric model whose default only leaves the member
\* unset
create_scene_atmosphere_Lenient ==
    /\ pc = "construct"
    /\ scene.phase = "light"
    /\ scene' = [scene EXCEPT !.phase = "atmosphere",
                              !.atmosphere = IF scene.args.atmospheric_model = 0
                                             THEN "GuimeraAtmosphere"
                                             ELSE "null"]
    /\ UNCHANGED <<pc, tiles>>

\* switch (args.atmospheric_model)
create_scene_atmosphere ==
    /\ pc = "construct"
    /\ scene.phase = "light"
    /\ IF scene.args.atmospheric_model = 0
       THEN /\ scene' = [scene EXCEPT !.phase = "atmosphere",
                                      !.atmosphere = "GuimeraAtmosphere"]
            /\ UNCHANGED pc
       ELSE /\ scene' = Thrown(scene, "Unknown atmospheric model")
            /\ pc' = "failed"
    /\ UNCHANGED tiles

\* switch (args.camera)
create_scene_camera ==
    /\ pc = "construct"
    /\ scene.phase = "atmosphere"
    /\ IF scene.args.camera \in {0, 1}
       THEN /\ scene' = [scene EXCEPT
                            !.phase = "camera",
                            !.camera = IF scene.args.camera = 0
                                       THEN "EquirectangularCamera"
                                       ELSE "FisheyeCamera"]
            /\ UNCHANGED pc
       ELSE /\ scene' = Thrown(scene, "Unknown camera mode")
            /\ pc' = "failed"
    /\ UNCHANGED tiles

\* switch (args.integrator), _scene->ground_albedo = args.albedo, and the
\* end of the constructor
create_scene_integrator ==
    /\ pc = "construct"
    /\ scene.phase = "camera"
    /\ IF scene.args.integrator \in {0, 1}
       THEN /\ scene' = [scene EXCEPT
                            !.phase = "built",
                            !.integrator = IF scene.args.integrator = 0
                                           THEN "PathTracingIntegrator"
                                           ELSE "TransmittanceIntegrator",
                            !.ground_albedo = "set"]
            /\ pc' = "constructed"
       ELSE /\ scene' = Thrown(scene, "Unknown integrator")
            /\ pc' = "failed"
    /\ UNCHANGED tiles

\* render() of the Renderer, one tile after the other
scene_render_tile ==
    /\ pc = "constructed"
    /\ scene.rendered < Len(tiles)
    /\ scene' = [scene EXCEPT !.rendered = scene.rendered + 1]
    /\ UNCHANGED <<pc, tiles>>

NextScene ==
    /\ \/ scene_prepare_tiles
       \/ create_scene_light
       \/ create_scene_atmosphere
       \/ create_scene_camera
       \/ create_scene_integrator
       \/ scene_render_tile
    /\ UNCHANGED <<cfg, atmospheres, prev_wl, prev_max_extinction, gme, query,
                   geomVars, workerVars, lut, track, li>>

SpecScene == InitScene /\ [][NextScene]_vars

\* every member of the scene is set
SceneComplete ==
    /\ scene.light # "null"
    /\ scene.atmosphere # "null"
    /\ scene.camera # "null"
    /\ scene.integrator # "null"
    /\ scene.ground_albedo = "set"

\* C17: an atmospheric-model selector other than 0, or a camera selector
\* other than 0 and 1, ends the construction with the error of the first
\* bad selector in the order atmosphere, camera, integrator; the error is
\* raised before any later member is made; after it there is no Renderer,
\* and a tile is only ever rendered by a Renderer whose scene is complete.
C17_UnknownSelectorIsFatal ==
    scene.phase # "off" =>
        /\ (scene.phase \in {"thrown", "built"} /\ scene.args.atmospheric_model # 0)
               => /\ pc = "failed"
                  /\ scene.error = "Unknown atmospheric model"
                  /\ scene.atmosphere = "null"
                  /\ scene.camera = "null"
                  /\ scene.integrator = "null"
        /\ (/\ scene.phase \in {"thrown", "built"}
            /\ scene.args.atmospheric_model = 0
            /\ scene.args.camera \notin {0, 1})
               => /\ pc = "failed"
                  /\ scene.error = "Unknown camera mode"
                  /\ scene.camera = "null"
                  /\ scene.integrator = "null"
        /\ scene.error = "Unknown integrator"
               => scene.args.atmospheric_model = 0 /\ scene.args.camera \in {0, 1}
        /\ (scene.args.atmospheric_model # 0 \/ scene.args.camera \notin {0, 1})
               => pc # "constructed" /\ scene.phase # "built"
        /\ pc = "failed" => scene.rendered = 0 /\ scene.phase = "thrown"
        /\ scene.rendered > 0 => pc = "constructed" /\ SceneComplete
        /\ pc = "constructed" => SceneComplete /\ scene.error = "none"

\* all three selectors are unknown: the error is that of the atmosphere
C17_Witness ==
    /\ pc = "failed"
    /\ scene.phase = "thrown"
    /\ scene.args.atmospheric_model # 0
    /\ scene.args.camera \notin {0, 1}
    /\ scene.args.integrator \notin {0, 1}
    /\ scene.error = "Unknown atmospheric model"
    /\ tiles # <<>>

(***************************************************************************)
(* Specification SpecBuild: the constructor of GuimeraAtmosphere           *)
(* (atmosphere.cxx:374-409) on every month index, turbidity and aerosol    *)
(* name of the input sets, and then one evaluation of the coefficients and *)
(* of phase_eval at a height and a wavelength.  query holds the arguments  *)
(* of the constructor and what the evaluation returned; dobson is the      *)
(* index _month and the entry of ozone_mean_monthly_dobson read with it    *)
(* (0 when the index is outside the table).                                *)
(***************************************************************************)
\* the samples (in quarters) and the cosines between wo and wi (in
\* twenty-fifths) phase_eval is called with
PhaseSamples == 0..3
PhaseCosines == {0 - 25, 15, 25}
BuildNames == AerosolNames \cup {"", "None", "Urban"}
BuildWavelengths == {320, 550, 1000}
BuildHeights == {0, 9001, 27001}

InitBuild ==
    /\ RendererOff
    /\ atmospheres = <<>>
    /\ gme = <<>>
    /\ prev_wl = 0
    /\ prev_max_extinction = 0
    /\ \E month \in Months, turbidity \in Turbidities,
          aerosol_type \in BuildNames, cs \in AerosolCrossSectionTables :
           query = [phase |-> "args", month |-> month, turbidity |-> turbidity,
                    aerosol_type |-> aerosol_type, cs |-> cs,
                    wl |-> 0, height |-> 0, extinction |-> 0, absorption |-> 0,
                    scattering |-> 0, molecular_scattering |-> 0,
                    molecular_absorption |-> 0, index |-> 0, dobson |-> 0,
                    phase_eval |-> <<>>]

\* GuimeraAtmosphere::GuimeraAtmosphere(month, turbidity, aerosol_type)
build_atmosphere ==
    /\ query.phase = "args"
    /\ atmospheres' = <<GuimeraAtmosphere(query.month, query.turbidity,
                                          query.aerosol_type, query.cs)>>
    /\ query' = [query EXCEPT !.phase = "built"]

\* the entry ozone_mean_monthly_dobson[index], 0 outside the table
DobsonAt(index) ==
    IF index + 1 \in DOMAIN ozone_mean_monthly_dobson
    THEN ozone_mean_monthly_dobson[index + 1] ELSE 0

\* the coefficients and the phase function of the instance at a point
build_evaluate(wl, h) ==
    /\ query.phase = "built"
    /\ LET atm == atmospheres[1]
       IN  query' =
             [query EXCEPT
                !.phase = "done", !.wl = wl, !.height = h,
                !.extinction = get_extinction(atm, h, wl),
                !.absorption = get_absorption(atm, h, wl),
                !.scattering = get_scattering(atm, h, wl),
                !.molecular_scattering = get_molecular_scattering(atm, h, wl),
                !.molecular_absorption = get_molecular_absorption(atm, h, wl),
                !.index = atm.month,
                !.dobson = DobsonAt(atm.month),
                !.phase_eval =
                    [x \in PhaseSamples \X PhaseCosines |->
                        phase_eval(atm, h, x[1], x[2], wl)]]
    /\ UNCHANGED atmospheres

NextBuild ==
    /\ \/ build_atmosphere
       \/ \E wl \in BuildWavelengths, height \in BuildHeights :
             build_evaluate(wl, height)
    /\ UNCHANGED <<pc, cfg, tiles, prev_wl, prev_max_extinction, gme,
                   geomVars, workerVars, callVars>>

SpecBuild == InitBuild /\ [][NextBuild]_vars

\* the nine names the constructor knows
KnownAerosolNames == AerosolTypes \cup {"background"}

\* C18: an atmosphere built with the aerosol name "none" or with a name that
\* is not one of the nine has no aerosol; its extinction is molecular
\* scattering + molecular absorption exactly, its scattering and absorption
\* are the molecular ones, and phase_eval is the molecular (Chandrasekhar)
\* phase function for every sample.
C18_NoAerosolIsMolecularOnly ==
    (query.phase \in {"built", "done"} /\ query.aerosol_type \notin KnownAerosolNames)
        => /\ Len(atmospheres) = 1
           /\ ~atmospheres[1].aerosol.present
           /\ query.phase = "done" =>
                 /\ query.extinction
                        = query.molecular_scattering + query.molecular_absorption
                 /\ query.scattering = query.molecular_scattering
                 /\ query.absorption = query.molecular_absorption
                 /\ \A x \in PhaseSamples \X PhaseCosines :
                        query.phase_eval[x] = ChandrasekharPhase_p(x[2], query.wl)

\* an unknown name, evaluated where an aerosol of a known name would add to
\* the extinction and where the two phase functions differ
C18_Witness ==
    /\ query.phase = "done"
    /\ query.aerosol_type = "smog"
    /\ query.extinction > 0
    /\ query.extinction
           < get_extinction(GuimeraAtmosphere(query.month, query.turbidity, "urban",
                                              query.cs),
                            query.height, query.wl)
    /\ query.phase_eval[<<3, 25>>] # HenyeyGreenstein_p(8, 25)

\* C19: the constructor replaces a month index outside 0..11 by 0 and keeps
\* one inside; so _month is in 0..11 once the atmosphere is built, and the
\* lookup ozone_mean_monthly_dobson[_month] of get_molecular_absorption is
\* inside the table of 12 entries (January's entry for a replaced index).
C19_MonthOutOfRangeIsJanuary ==
    query.phase \in {"built", "done"} =>
        /\ Len(atmospheres) = 1
        /\ atmospheres[1].month \in 0..11
        /\ Len(ozone_mean_monthly_dobson) = 12
        /\ IF query.month \in 0..11
           THEN atmospheres[1].month = query.month
           ELSE atmospheres[1].month = 0
        /\ query.phase = "done" =>
              /\ query.index \in 0..11
              /\ query.dobson = ozone_mean_monthly_dobson[query.index + 1]
              /\ query.month \notin 0..11 =>
                    /\ query.dobson = ozone_mean_monthly_dobson[1]
                    /\ query.molecular_absorption
                           = get_molecular_absorption(
                                 GuimeraAtmosphere(0, query.turbidity,
                                                   query.aerosol_type, query.cs),
                                 query.height, query.wl)

\* an atmosphere built with the month index 12 has absorbed with the ozone
\* column of January
C19_Witness ==
    /\ query.phase = "done"
    /\ query.month = 12
    /\ atmospheres[1].month = 0
    /\ query.dobson = 347
    /\ query.molecular_absorption > 0

(***************************************************************************)
(* Specification SpecLut: lut_lerp  (lut.cxx:27-51) on every table of the  *)
(* input set, whose keys increase strictly and whose values may be 0 or    *)
(* negative, and every argument.  The probe of std::lower_bound is the     *)
(* pair (x, numeric_limits<float>::min()) and pairs are compared           *)
(* lexicographically: an element whose key is x and whose value is below   *)
(* the smallest positive normal float (0, a negative number) is less than  *)
(* the probe.  When every element is less than the probe, lower_bound      *)
(* returns end() and lut_lerp reads *end(): the pair read there,           *)
(* past_the_end, is whatever lies behind the storage of the vector.  The   *)
(* result is [nan, value].                                                 *)
(***************************************************************************)
\* *it < std::make_pair(x, numeric_limits<float>::min()), the values being
\* whole numbers of the unit
PairLess(e, x) == e[1] < x \/ (e[1] = x /\ e[2] < 1)

\* std::lower_bound: the first position whose element is not less than the
\* probe; Len(table) + 1 is end()
lower_bound(table, x) ==
    CHOOSE it \in 1..(Len(table) + 1) :
        /\ \A k \in 1..(it - 1) : PairLess(table[k], x)
        /\ it <= Len(table) => ~PairLess(table[it], x)

\* it2->second + (it->second - it2->second) * (x - it2->first)
\*     / (it->first - it2->first): 0/0 is NaN
Interpolated(e2, e, x) ==
    IF e[1] = e2[1]
    THEN [nan |-> TRUE, value |-> 0]
    ELSE [nan |-> FALSE,
          value |-> e2[2] + ((e[2] - e2[2]) * (x - e2[1])) \div (e[1] - e2[1])]

lut_lerp_at(table, x, past_the_end) ==
    IF x > table[Len(table)][1]
    THEN [nan |-> FALSE, value |-> table[Len(table)][2]]
    ELSE IF x < table[1][1] THEN [nan |-> FALSE, value |-> table[1][2]]
    ELSE LET it == lower_bound(table, x)
         IN  IF it = 1 THEN [nan |-> FALSE, value |-> table[1][2]]
             ELSE Interpolated(table[it - 1],
                               IF it > Len(table) THEN past_the_end ELSE table[it],
                               x)

LutKeys == {10, 20, 40}
LutValues == {0 - 3, 0, 6, 9}
LutArguments == {5, 10, 15, 20, 25, 30, 40, 45}
\* what may be read behind the last element: any key, that of the last element
\* included, and any value
PastTheEnd == (LutKeys \cup {0}) \X {0, 6}

\* the keys of ks in increasing order
RECURSIVE Ascending(_)
Ascending(ks) ==
    IF ks = {} THEN <<>>
    ELSE LET least == CHOOSE k \in ks : \A j \in ks : k <= j
         IN  <<least>> \o Ascending(ks \ {least})

\* the non-empty tables with strictly increasing keys
LutTables ==
    UNION {{[k \in 1..Cardinality(ks) |-> <<Ascending(ks)[k], vs[k]>>] :
                vs \in [1..Cardinality(ks) -> LutValues]}
           : ks \in (SUBSET LutKeys) \ {{}}}

InitLut ==
    /\ pc = "off"
    /\ cfg = Config(1, 1, 1, 1)
    /\ tiles = <<>>
    /\ AtmosOff
    /\ GeomOff
    /\ WorkersOff
    /\ SceneOff /\ TrackOff /\ LiOff
    /\ \E table \in LutTables, x \in LutArguments :
           lut = [phase |-> "call", table |-> table, x |-> x, nan |-> FALSE,
                  value |-> 0]

lut_lerp_call ==
    /\ lut.phase = "call"
    /\ \E past_the_end \in PastTheEnd :
          LET r == lut_lerp_at(lut.table, lut.x, past_the_end)
          IN  lut' = [lut EXCEPT !.phase = "returned", !.nan = r.nan,
                                 !.value = r.value]

NextLut ==
    /\ lut_lerp_call
    /\ UNCHANGED <<pc, cfg, tiles, atmospheres, prev_wl, prev_max_extinction,
                   gme, query, geomVars, workerVars, scene, track, li>>

SpecLut == InitLut /\ [][NextLut]_vars

Between(v, a, b) == (a <= v /\ v <= b) \/ (b <= v /\ v <= a)

\* C20: for a non-empty table with strictly increasing keys, lut_lerp
\* returns the first value for x below the first key and the last value for
\* x above the last key; for x equal to a key exactly the value of that key;
\* for x strictly between two adjacent keys the linear interpolation of
\* their values, which lies between them.
C20_SaturateExactInterpolate ==
    lut.phase = "returned" =>
        LET table == lut.table
            x == lut.x
            n == Len(table)
        IN  /\ ~lut.nan
            /\ x < table[1][1] => lut.value = table[1][2]
            /\ x > table[n][1] => lut.value = table[n][2]
            /\ \A k \in 1..n : x = table[k][1] => lut.value = table[k][2]
            /\ \A k \in 1..(n - 1) :
                   (table[k][1] < x /\ x < table[k + 1][1]) =>
                       /\ lut.value
                              = table[k][2]
                                + ((table[k + 1][2] - table[k][2]) * (x - table[k][1]))
                                      \div (table[k + 1][1] - table[k][1])
                       /\ Between(lut.value, table[k][2], table[k + 1][2])

\* x is the last key, the last value is not above 0, and the pair read at
\* end() has the key of the last element: the result is 0/0
C20_Witness ==
    /\ lut.phase = "returned"
    /\ lut.x = lut.table[Len(lut.table)][1]
    /\ lut.table[Len(lut.table)][2] <= 0
    /\ lower_bound(lut.table, lut.x) = Len(lut.table) + 1
    /\ lut.nan

(***************************************************************************)
(* Specification SpecStep: the first statement of the two tracking loops,  *)
(* t -= logf(1.0f - sampler->next_1d()) / majorant  (integrator.cxx:89 and *)
(* 111), from every state of the generator and with every majorant that    *)
(* get_max_extinction returns: the ground-level extinction of an           *)
(* atmosphere, or the initial 0.0f of its cache (a first call with the     *)
(* wavelength 0, or a call between the two stores of another thread).      *)
(* track holds the generator, the majorant, the draw u (in quarters) and   *)
(* the step: inf for x / 0 with x > 0, nan for 0 / 0, else its value in    *)
(* fifths of a km.                                                         *)
(***************************************************************************)
\* the generator's states: every 12-bit state, two streams
StepGenerators == {[state |-> s, inc |-> i] : s \in 0..4095, i \in {1, 5}}
StepMajorants ==
    {0} \cup {get_extinction(atm, 0, TrackWavelength) : atm \in CacheInstances}

\* -logf(1.0f - u) / majorant
ExponentialStep(u, majorant) ==
    IF majorant = 0
    THEN [nan |-> NegLog1m(u) = 0, inf |-> NegLog1m(u) # 0, value |-> 0]
    ELSE [nan |-> FALSE, inf |-> FALSE,
          value |-> MulDiv(NegLog1m(u), 500, majorant)]

InitStep ==
    /\ pc = "off"
    /\ cfg = Config(1, 1, 1, 1)
    /\ tiles = <<>>
    /\ AtmosOff
    /\ GeomOff
    /\ WorkersOff
    /\ SceneOff /\ LutOff /\ LiOff
    /\ \E rng \in StepGenerators, majorant \in StepMajorants :
           track = [phase |-> "loop", rng |-> rng, majorant |-> majorant,
                    u |-> 0, step |-> [nan |-> FALSE, inf |-> FALSE, value |-> 0]]

\* sampler->next_1d()
step_next_1d ==
    /\ track.phase = "loop"
    /\ LET r == next_float(track.rng)
       IN  track' = [track EXCEPT !.phase = "drawn", !.rng = r.rng, !.u = r.out]

\* t -= logf(1.0f - u) / majorant
step_advance ==
    /\ track.phase = "drawn"
    /\ track' = [track EXCEPT !.phase = "stepped",
                              !.step = ExponentialStep(track.u, track.majorant)]

NextStep ==
    /\ \/ step_next_1d
       \/ step_advance
    /\ UNCHANGED <<pc, cfg, tiles, atmospheres, prev_wl, prev_max_extinction,
                   gme, query, geomVars, workerVars, scene, lut, li>>

SpecStep == InitStep /\ [][NextStep]_vars

\* C21: from every state of the generator next_float returns k / 2^24 with k
\* in 0..2^24-1 (k quarters with k in 0..3 in the generator of the model), a
\* value in [0, 1) and never 1; so 1 - u is above 0 in the exponential step
\* and every step length is finite and >= 0.
C21_UnitIntervalAndFiniteStep ==
    /\ track.phase \in {"drawn", "stepped"} =>
          /\ track.u \in 0..3
          /\ 4 - track.u > 0
    /\ track.phase = "stepped" =>
          /\ ~track.step.nan
          /\ ~track.step.inf
          /\ track.step.value >= 0

\* the draw is inside (0, 1) and the majorant returned is the initial 0 of
\* the cache: the step is +inf
C21_Witness ==
    /\ track.phase = "stepped"
    /\ track.u \in 1..3
    /\ track.majorant = 0
    /\ track.step.inf

\* C22: a bounce of PathTracingIntegrator::Li that finds no bound, or no
\* interaction on a segment that does not end on the ground, or an
\* absorption, ends the path there: the free flight of a bounce leaves L as
\* it is, and the step that ends the path returns L and the contributions
\* as they were, having drawn nothing (no bound), only the numbers of
\* sample_interaction (exit), or only the one number that decided the
\* collision (absorption): the sun is not sampled.
C22_TerminalStatesKeepRadiance ==
    [][/\ li.phase = "loop" => (li'.L = li.L /\ li'.nee = li.nee)
       /\ (/\ li.integrator = "path"
           /\ li'.phase = "returned"
           /\ li'.event \in {"space", "exit", "absorbed"}) =>
             /\ li'.L = li.L
             /\ li'.nee = li.nee
             /\ li'.order = li.order
             /\ \A k \in 1..Len(li'.nee) : li'.nee[k].order < li'.order
             /\ li'.event = "space" =>
                   li.phase = "loop" /\ li'.t_max < 0 /\ li'.sampler = li.sampler
             /\ li'.event = "exit" =>
                   /\ li.phase = "loop"
                   /\ li'.t_max >= 0 /\ li'.t < 0 /\ ~li'.earth
                   /\ li'.sampler
                          = sample_interaction(li.atmosphere, li.sampler, li.ray,
                                               li'.t_max, li.wl, LiMajorant(li)).sampler
             /\ li'.event = "absorbed" =>
                   /\ li.phase = "medium"
                   /\ li'.sampler = next_float(li.sampler).rng]_vars

\* a path that left the atmosphere at its second or a later bounce has
\* returned what the bounces before had accumulated
C22_Witness ==
    /\ li.phase = "returned"
    /\ li.integrator = "path"
    /\ li.event = "exit"
    /\ li.order >= 2
    /\ li.nee # <<>>
    /\ li.L > 0
    /\ li.L = NeeSum(li.nee, Len(li.nee))

\* the state p without what it has accumulated and without the flag
WithoutRadiance(p) == [p EXCEPT !.L = 0, !.nee = <<>>, !.only_ms = FALSE]

\* C23: every step of a path with the only-multiple-scattering flag is the
\* step of the same path without the flag (same random numbers consumed,
\* same throughput, same next ray, same continuation or end), except that at
\* order 1 nothing is added to L; at every order above 1 what is added is
\* what is added without the flag.
C23_OnlyMsSkipsFirstOrderOnly ==
    [][(/\ li.integrator = "path"
        /\ li.only_ms
        /\ li.phase \in {"loop", "surface", "medium", "roulette"}) =>
           LET unflagged == LiStep([li EXCEPT !.only_ms = FALSE])
           IN  /\ WithoutRadiance(li') = WithoutRadiance(unflagged)
               /\ IF li.order = 1
                  THEN li'.L = li.L /\ li'.nee = li.nee
                  ELSE li'.L = unflagged.L /\ li'.nee = unflagged.nee]_vars

\* a flagged path whose first bounce, on the ground or in the medium, would
\* have added to L has gone on and added the contribution of its second
\* bounce
C23_Witness ==
    /\ li.phase = "returned"
    /\ li.integrator = "path"
    /\ li.only_ms
    /\ li.nee # <<>>
    /\ li.nee[1].order = 2
    /\ li.nee[1].value > 0
    /\ li.L > 0
    /\ LET unflagged == PathTracingLi([li EXCEPT !.only_ms = FALSE], li.max_order)
       IN  /\ unflagged.nee[1].order = 1
           /\ unflagged.nee[1].value > 0
           /\ unflagged.sampler = li.sampler
           /\ unflagged.L = li.L + unflagged.nee[1].value

(***************************************************************************)
(* Specification SpecDeep: calls of PathTracingIntegrator::Li that are     *)
(* allowed DeepOrder bounces, more than the five after which the Russian   *)
(* roulette begins, on a white, a default and a black ground.              *)
(***************************************************************************)
DeepOrder == 7
DeepAlbedos == {0, 3000, 10000}
DeepRays == {Ray(o_z, d) : o_z \in {1, 50}, d \in {<<0, 5>>, <<3, 0 - 4>>, <<5, 0>>}}
\* eight seeds of four streams, and three seeds whose sixth bounce survives
\* the roulette
DeepSamplers ==
    {Sampler(begin, end) : begin \in 0..7, end \in 1..4}
    \cup {Sampler(10, 4), Sampler(53, 2), Sampler(59, 3)}
DeepAtmospheres ==
    {GuimeraAtmosphere(6, 3, "urban", cs) : cs \in AerosolCrossSectionTables}

InitDeep ==
    /\ pc = "off"
    /\ cfg = Config(1, 1, 1, 1)
    /\ tiles = <<>>
    /\ AtmosOff
    /\ GeomOff
    /\ WorkersOff
    /\ SceneOff /\ LutOff /\ TrackOff
    /\ \E atm \in DeepAtmospheres, albedo \in DeepAlbedos, ray \in DeepRays,
          sampler \in DeepSamplers, y_first \in BOOLEAN :
           li = LiCall("path", atm, <<3, 4>>, albedo, DeepOrder, FALSE, y_first,
                       ray, sampler)

NextDeep ==
    /\ \/ PathTracingIntegrator_Li_enter
       \/ Li_flight
       \/ Li_surface
       \/ Li_medium
       \/ Li_roulette
    /\ UNCHANGED <<pc, cfg, tiles, atmospheres, prev_wl, prev_max_extinction,
                   gme, query, isect, workerVars, scene, lut, track>>

SpecDeep == InitDeep /\ [][NextDeep]_vars

\* q = fmaxf(0.05f, 1.0f - throughput)
RouletteQ(throughput) ==
    IF 10000 - throughput > 500 THEN 10000 - throughput ELSE 500

\* C24: a step that ends a path with the Russian roulette starts at the end
\* of a bounce; at the end of a bounce of order <= 5 no random number is
\* drawn and the throughput is not rescaled; at the end of a bounce of
\* order > 5 one number u is drawn, with q = max(0.05, 1 - throughput) the
\* path ends by the roulette iff u < q, and otherwise the throughput becomes
\* throughput / (1 - q).
C24_RouletteAboveOrderFive ==
    [][/\ li'.phase = "returned" /\ li'.event = "roulette" =>
              li.phase = "roulette" /\ li.order > 5
       /\ li.phase = "roulette" =>
              LET q == RouletteQ(li.throughput)
                  drawn == next_float(li.sampler)
              IN  IF li.order <= 5
                  THEN /\ li'.sampler = li.sampler
                       /\ li'.throughput = li.throughput
                       /\ ~(li'.phase = "returned" /\ li'.event = "roulette")
                  ELSE /\ li'.sampler = drawn.rng
                       /\ (li'.phase = "returned" /\ li'.event = "roulette")
                              <=> drawn.out * 2500 < q
                       /\ IF drawn.out * 2500 < q
                          THEN li'.throughput = li.throughput
                          ELSE li'.throughput * (10000 - q)
                                   \in (li.throughput * 10000 - (10000 - q) + 1)
                                       .. (li.throughput * 10000)]_vars

\* a path whose sixth bounce survived the roulette with a throughput below 1
\* and goes on with the throughput divided by 1 - q
C24_Witness ==
    /\ li.phase = "loop"
    /\ li.integrator = "path"
    /\ li.order = 7
    /\ li.throughput = 10000
    /\ li.nee # <<>>

\* C25: the throughput is 1 when a path starts; the free flight and the
\* medium interaction (scattering or absorption) leave it unchanged; a
\* surface interaction multiplies it by albedo / pi; the end of a bounce
\* leaves it unchanged or, when a roulette of an order above 5 is survived,
\* divides it by 1 - q.
C25_ThroughputChangesInTwoPlaces ==
    [][/\ li.phase = "call" => li'.throughput = 10000
       /\ li.phase \in {"loop", "medium"} => li'.throughput = li.throughput
       /\ li.phase = "surface" =>
              li'.throughput = (li.throughput * ((li.albedo * 3183) \div 10000))
                                   \div 10000
       /\ li.phase = "roulette" =>
              \/ li'.throughput = li.throughput
              \/ /\ li.order > 5
                 /\ li'.phase # "returned"
                 /\ li'.throughput
                        = (li.throughput * 10000)
                              \div (10000 - RouletteQ(li.throughput))]_vars

\* the second bounce of a path scattered in the medium with the throughput
\* albedo / pi that the ground gave it at the first bounce
C25_Witness ==
    /\ li.phase = "roulette"
    /\ li.integrator = "path"
    /\ li.albedo = 3000
    /\ li.order = 2
    /\ li.throughput = 954
    /\ Len(li.nee) = 2
    /\ li.nee[1].kind = "surface"
    /\ li.nee[2].kind = "medium"
    /\ li.nee[2].value > 0

(***************************************************************************)
(* Specification SpecSun: one call of sample_sun from a point p.  The      *)
(* points are interaction points of PathTracingIntegrator::Li: points on   *)
(* the ground and in the atmosphere, and, for a camera above the           *)
(* atmosphere (--eye-altitude 901000, direction (-4, -3) / 5), a point of  *)
(* the camera ray before it enters the atmosphere, where the extinction    *)
(* tables are not zero.                                                    *)
(***************************************************************************)
SunPoints ==
    {<<0, 1>>, <<0, 50>>, <<0, 99>>, <<0 - 300, 40>>, <<200, 10>>,
     <<0 - 1200, 1>>}
SunDirections == {<<0 - 5, 0>>, <<5, 0>>, <<3, 4>>, <<0, 5>>, <<4, 0 - 3>>}
SunSamplers == {Sampler(begin, end) : begin \in 0..3, end \in 1..2}

InitSun ==
    /\ pc = "off"
    /\ cfg = Config(1, 1, 1, 1)
    /\ tiles = <<>>
    /\ AtmosOff
    /\ GeomOff
    /\ WorkersOff
    /\ SceneOff /\ LutOff /\ LiOff
    /\ \E atm \in DeepAtmospheres, direction \in SunDirections, p \in SunPoints,
          sampler \in SunSamplers, y_first \in BOOLEAN :
           track = [phase |-> "call", atmosphere |-> atm, sun |-> direction,
                    p |-> p, sampler |-> sampler, y_first |-> y_first]

\* sample_sun(scene, sampler, p, wl, shadow_ray_dir, beam_transmittance, L)
sample_sun_call ==
    /\ track.phase = "call"
    /\ \E r \in {sample_sun(track.atmosphere, track.sun, track.sampler,
                            track.y_first, track.p, LiWavelength,
                            get_extinction(track.atmosphere, 0, LiWavelength))} :
           track' = [phase |-> "done", atmosphere |-> track.atmosphere,
                     sun |-> track.sun, p |-> track.p,
                     sampler |-> track.sampler, y_first |-> track.y_first,
                     result |-> r]
    /\ UNCHANGED <<pc, cfg, tiles, atmospheres, prev_wl, prev_max_extinction,
                   gme, query, isect, workerVars, scene, lut, li>>

NextSun == sample_sun_call

SpecSun == InitSun /\ [][NextSun]_vars

\* the ray from the point p of the call towards the sun
ShadowRay == RayFrom(track.p[1], track.p[2], track.sun)

\* the ray meets the sphere of radius sr at a distance >= 0
HitsSphere(ray, sr) ==
    /\ RayD(ray, sr) >= 0
    /\ (0 - RayB(ray)) + sqrtf(RayD(ray, sr)) >= 0
    /\ (RayC(ray, sr) > 0 => RayB(ray) <= 0)

\* the distance at which the ray leaves the sphere of radius sr (the far
\* root), or the sentinel when no point of the ray is inside the sphere
LeavesSphereAt(ray, sr) ==
    IF HitsSphere(ray, sr) THEN (0 - RayB(ray)) + sqrtf(RayD(ray, sr))
    ELSE 0 - 5

\* C26: the result of sample_sun from a point p: when the shadow ray meets
\* the ground the beam transmittance is 0 and only the two numbers of the
\* light sample have been drawn; otherwise the beam transmittance and the
\* numbers drawn are those of the ratio tracking from p to the point where
\* the shadow ray leaves the atmosphere.
C26_OccludedZeroElseTransmittanceToExit ==
    track.phase = "done" =>
        LET drawn == next_2d(track.sampler, track.y_first).rng
        IN  IF HitsSphere(ShadowRay, EARTH_RADIUS)
            THEN /\ track.result.beam_transmittance = 0
                 /\ track.result.sampler = drawn
            ELSE LET tr == transmittance(
                               track.atmosphere, drawn, ShadowRay,
                               LeavesSphereAt(ShadowRay, ATMOSPHERE_RADIUS),
                               LiWavelength,
                               get_extinction(track.atmosphere, 0, LiWavelength))
                 IN  /\ track.result.beam_transmittance = tr.value
                     /\ track.result.sampler = tr.sampler

\* a call from a point above the atmosphere with the sun on the horizon
\* behind the atmosphere: the shadow ray misses the ground, and what is
\* returned is the ratio tracking up to the point where the ray enters the
\* atmosphere
C26_Witness ==
    /\ track.phase = "done"
    /\ RayC(ShadowRay, ATMOSPHERE_RADIUS) > 0
    /\ ~HitsSphere(ShadowRay, EARTH_RADIUS)
    /\ HitsSphere(ShadowRay, ATMOSPHERE_RADIUS)
    /\ ~track.result.occluded
    /\ LET drawn == next_2d(track.sampler, track.y_first).rng
           entry == (0 - RayB(ShadowRay)) - sqrtf(RayD(ShadowRay, ATMOSPHERE_RADIUS))
           tr == transmittance(track.atmosphere, drawn, ShadowRay, entry,
                               LiWavelength,
                               get_extinction(track.atmosphere, 0, LiWavelength))
       IN  /\ entry < LeavesSphereAt(ShadowRay, ATMOSPHERE_RADIUS)
           /\ track.result.beam_transmittance = tr.value
           /\ track.result.sampler = tr.sampler

\* the number of steps a call of PathTracingIntegrator::Li has left at most:
\* four for every order up to max_order (the flight, the interaction, the
\* end of the bounce) and for the last loop test
LiVariant(p) ==
    IF p.phase = "returned" THEN 0
    ELSE IF p.phase = "call" THEN 4 * (p.max_order + 2)
    ELSE 4 * (p.max_order + 1 - p.order)
         + (CASE p.phase = "loop" -> 3
              [] p.phase \in {"surface", "medium"} -> 2
              [] p.phase = "roulette" -> 1
              [] OTHER -> 0)

\* C27: a call of PathTracingIntegrator::Li is always at a statement that
\* has a next step (with the majorant above 0 no free flight and no shadow
\* ray stays in its tracking loop), the body of the bounce loop runs only
\* for orders 1..max_order, a call with max_order <= 0 draws nothing and
\* returns 0, and every step brings the call nearer to its return: the
\* number of steps left decreases and is never negative, so every call
\* returns.
C27_LiAlwaysReturns ==
    /\ [](li.integrator = "path" =>
             /\ LiMajorant(li) > 0
             /\ li.phase \in {"call", "loop", "surface", "medium", "roulette",
                              "returned"}
             /\ li.phase \in {"surface", "medium", "roulette"} =>
                    li.order \in 1..li.max_order
             /\ li.phase \in {"loop", "returned"} =>
                    li.order \in 1..(li.max_order + 1)
             /\ LiVariant(li) >= 0
             /\ (li.phase = "returned" /\ li.max_order <= 0) =>
                    /\ li.event = "max_order"
                    /\ li.L = 0
                    /\ li.nee = <<>>
                    /\ li.sampler = li.first)
    /\ [][li.integrator = "path" => LiVariant(li') < LiVariant(li)]_vars

\* a path that ran all its max_order bounces, each with its collision and
\* its shadow ray, and returned when the loop test failed
C27_Witness ==
    /\ li.phase = "returned"
    /\ li.integrator = "path"
    /\ li.event = "max_order"
    /\ li.max_order = MaxOrder
    /\ li.order = MaxOrder + 1
    /\ ~li.only_ms
    /\ Len(li.nee) = MaxOrder

FisheyeUv(c, x, y, s) ==
    [x |-> 4 * x + s.x - 2 * c.image_width,
     y |-> 4 * y + s.y - 2 * c.image_height,
     den |-> 4 * (IF c.image_width < c.image_height
                  THEN c.image_width ELSE c.image_height)]

\* if (l > (0.5f + 1e-3f)) return false;
FisheyeMasked(uv) ==
    1000000 * (uv.x * uv.x + uv.y * uv.y) > (501 * uv.den) * (501 * uv.den)

\* theta = M_PI * l; ray.d = spherical_to_cartesian(theta, phi)
FisheyeCamera_sample_ray(c, x, y, s) ==
    LET uv == FisheyeUv(c, x, y, s)
    IN  IF FisheyeMasked(uv) THEN [ok |-> FALSE]
        ELSE [ok |-> TRUE,
              ray |-> Ray(c.eye_altitude,
                          spherical_to_cartesian(
                              sqrtf(10000 * (uv.x * uv.x + uv.y * uv.y)),
                              100 * uv.den))]

\* one sample of the pixel, with its 2D point, what the camera answered and
\* what the integrator returned
PixelSampleOf(p, s, masked, L, after) ==
    [point |-> <<s.x, s.y>>, masked |-> masked, L |-> L,
     before |-> p.sampler, after |-> after]

\* an iteration that asks the integrator also when the camera gave no ray
render_pixel_iteration_Unmasked(p) ==
    LET s == next_2d(p.sampler, p.c.y_first)
        uv == FisheyeUv(p.c, p.x, p.y, s)
        ray == Ray(p.c.eye_altitude,
                   spherical_to_cartesian(
                       IF FisheyeMasked(uv) THEN 0
                       ELSE sqrtf(10000 * (uv.x * uv.x + uv.y * uv.y)),
                       100 * uv.den))
        r == TransmittanceIntegrator_Li(
                 LiCall("transmittance", p.atmosphere, <<3, 4>>, 3000, 0, FALSE,
                        p.c.y_first, ray, s.rng))
    IN  [p EXCEPT !.i = p.i + 1,
                  !.accum = p.accum + r.L,
                  !.sampler = r.sampler,
                  !.samples = Append(p.samples,
                                     PixelSampleOf(p, s, FisheyeMasked(uv), r.L,
                                                   r.sampler))]

\* the body of the loop of render_pixel (lines 201-208)
render_pixel_iteration(p) ==
    LET s == next_2d(p.sampler, p.c.y_first)
        cam == FisheyeCamera_sample_ray(p.c, p.x, p.y, s)
    IN  IF ~cam.ok
        THEN [p EXCEPT !.i = p.i + 1,
                       !.sampler = s.rng,
                       !.samples = Append(p.samples,
                                          PixelSampleOf(p, s, TRUE, 0, s.rng))]
        ELSE LET r == TransmittanceIntegrator_Li(
                          LiCall("transmittance", p.atmosphere, <<3, 4>>, 3000, 0,
                                 FALSE, p.c.y_first, cam.ray, s.rng))
             IN  [p EXCEPT !.i = p.i + 1,
                           !.accum = p.accum + r.L,
                           !.sampler = r.sampler,
                           !.samples = Append(p.samples,
                                              PixelSampleOf(p, s, FALSE, r.L,
                                                            r.sampler))]

(***************************************************************************)
(* Specification SpecPixel: one call of render_pixel with the fisheye      *)
(* camera and the transmittance integrator, one sample at a time.          *)
(***************************************************************************)
MaxSamples == 3
PixelImages == {<<2, 2>>, <<4, 2>>, <<2, 4>>}
PixelSamplers == {Sampler(begin, end) : begin \in 0..3, end \in 1..2}

InitPixel ==
    /\ pc = "off"
    /\ cfg = Config(1, 1, 1, 1)
    /\ tiles = <<>>
    /\ AtmosOff
    /\ GeomOff
    /\ WorkersOff
    /\ SceneOff /\ LutOff /\ LiOff
    /\ \E size \in PixelImages, samples \in 1..MaxSamples, y_first \in BOOLEAN,
          sampler \in PixelSamplers :
       \E x \in 0..(size[1] - 1), y \in 0..(size[2] - 1) :
           track = [phase |-> "loop",
                    c |-> [image_width |-> size[1], image_height |-> size[2],
                           eye_altitude |-> 1, y_first |-> y_first],
                    samples_per_pixel |-> samples,
                    atmosphere |-> CHOOSE atm \in DeepAtmospheres : TRUE,
                    x |-> x, y |-> y, i |-> 0, accum |-> 0, sampler |-> sampler,
                    samples |-> <<>>, value |-> 0]

\* for (int i = 0; i < _samples_per_pixel; ++i) { ... }
render_pixel_sample ==
    /\ track.phase = "loop"
    /\ track.i < track.samples_per_pixel
    /\ \E r \in {render_pixel_iteration(track)} : track' = r

\* accum /= _samples_per_pixel; return accum;
render_pixel_return ==
    /\ track.phase = "loop"
    /\ track.i >= track.samples_per_pixel
    /\ track' = [track EXCEPT !.phase = "returned",
                              !.value = track.accum \div track.samples_per_pixel]

NextPixel ==
    /\ \/ render_pixel_sample
       \/ render_pixel_return
    /\ UNCHANGED <<pc, cfg, tiles, atmospheres, prev_wl, prev_max_extinction,
                   gme, query, isect, workerVars, scene, lut, li>>

SpecPixel == InitPixel /\ [][NextPixel]_vars

\* the sum of the radiances of the first n samples
RECURSIVE PixelSum(_, _)
PixelSum(samples, n) ==
    IF n = 0 THEN 0 ELSE samples[n].L + PixelSum(samples, n - 1)

\* the sample's point (pixel + u) / size lies outside the circle of the
\* fisheye image
OutsideFisheye(p, point) ==
    LET m == IF p.c.image_width < p.c.image_height
             THEN p.c.image_width ELSE p.c.image_height
        dx == 4 * p.x + point[1] - 2 * p.c.image_width
        dy == 4 * p.y + point[2] - 2 * p.c.image_height
    IN  250000 * (dx * dx + dy * dy) > (501 * m) * (501 * m) * 4

\* C29: every sample of a pixel draws its 2D point first; a sample whose
\* point is outside the fisheye circle draws nothing more and contributes
\* 0; the samples follow one another on the same random stream; and
\* render_pixel returns the sum of the integrator's values over the samples
\* that had a ray divided by samples-per-pixel, 0 when all were masked.
C29_MaskedSamplesCountInDivisor ==
    /\ Len(track.samples) = track.i
    /\ track.i <= track.samples_per_pixel
    /\ track.accum = PixelSum(track.samples, track.i)
    /\ \A k \in 1..Len(track.samples) :
          LET s == track.samples[k]
              drawn == next_2d(s.before, track.c.y_first)
          IN  /\ s.point = <<drawn.x, drawn.y>>
              /\ s.masked = OutsideFisheye(track, s.point)
              /\ s.masked => s.L = 0 /\ s.after = drawn.rng
              /\ s.before = IF k = 1 THEN track.samples[1].before
                            ELSE track.samples[k - 1].after
    /\ track.phase = "returned" =>
          /\ track.i = track.samples_per_pixel
          /\ track.value
                 = PixelSum(track.samples, track.i) \div track.samples_per_pixel
          /\ (\A k \in 1..track.i : track.samples[k].masked) => track.value = 0

\* a pixel on the edge of the circle returned with one sample masked and the
\* others traced: the value is their sum over all the samples
C29_Witness ==
    /\ track.phase = "returned"
    /\ track.samples_per_pixel = 3
    /\ Cardinality({k \in 1..3 : track.samples[k].masked}) = 1
    /\ \A k \in 1..3 : ~track.samples[k].masked => track.samples[k].L > 0
    /\ track.value > 0
    /\ 3 * track.value <= PixelSum(track.samples, 3)
    /\ 2 * track.value < PixelSum(track.samples, 3)

(***************************************************************************)
(* Specification SpecRatio: one call of transmittance()                    *)
(* (integrator.cxx:104-120), one iteration of its loop at a time, with the *)
(* majorant get_max_extinction returns to a single thread for a wavelength *)
(* above 0.  The call is followed while |Tr| <= 1.                         *)
(***************************************************************************)
RatioWavelengths == {253, 550}
RatioAtmospheres ==
    {GuimeraAtmosphere(0, 1, "none", CHOOSE cs \in AerosolCrossSectionTables : TRUE),
     GuimeraAtmosphere(6, 3, "urban", CHOOSE cs \in AerosolCrossSectionTables : TRUE)}
RatioRays == {Ray(o_z, d) : o_z \in {1, 10, 20}, d \in {<<0, 5>>, <<3, 4>>}}
RatioSamplers == {Sampler(begin, end) : begin \in 0..3, end \in 1..2}

InitRatio ==
    /\ pc = "off"
    /\ cfg = Config(1, 1, 1, 1)
    /\ tiles = <<>>
    /\ AtmosOff
    /\ GeomOff
    /\ WorkersOff
    /\ SceneOff /\ LutOff /\ LiOff
    /\ \E atm \in RatioAtmospheres, wl \in RatioWavelengths, ray \in RatioRays,
          sampler \in RatioSamplers :
           track = [phase |-> "loop", atmosphere |-> atm, wl |-> wl,
                    majorant |-> get_extinction(atm, 0, wl), ray |-> ray,
                    t_max |-> scene_intersect(ray).t_max, t |-> 0,
                    Tr |-> 10000, before |-> 10000, extinction |-> 0,
                    sampler |-> sampler]

\* t -= logf(1.0f - sampler->next_1d()) / majorant; if (t >= t_max) break;
transmittance_break ==
    /\ track.phase = "loop"
    /\ track.Tr \in (0 - 10000)..10000
    /\ FlightEnd(track.t, track.sampler, track.majorant) >= track.t_max
    /\ track' = [track EXCEPT !.phase = "returned",
                              !.t = FlightEnd(track.t, track.sampler, track.majorant),
                              !.before = track.Tr,
                              !.sampler = next_float(track.sampler).rng]

\* ... Tr *= 1.0f - fmaxf(0.0f, extinction / majorant);
transmittance_attenuate ==
    /\ track.phase = "loop"
    /\ track.Tr \in (0 - 10000)..10000
    /\ \E t \in {FlightEnd(track.t, track.sampler, track.majorant)} :
          /\ t < track.t_max
          /\ track' = [track EXCEPT
                          !.t = t,
                          !.before = track.Tr,
                          !.extinction =
                              get_extinction(track.atmosphere,
                                             height_at_point(track.ray, t),
                                             track.wl),
                          !.Tr = Attenuated(track.atmosphere, track.wl,
                                            track.majorant, track.ray, track.Tr, t),
                          !.sampler = next_float(track.sampler).rng]

NextRatio ==
    /\ \/ transmittance_break
       \/ transmittance_attenuate
    /\ UNCHANGED <<pc, cfg, tiles, atmospheres, prev_wl, prev_max_extinction,
                   gme, query, isect, workerVars, scene, lut, li>>

SpecRatio == InitRatio /\ [][NextRatio]_vars

\* C30: at every step of transmittance() the running product Tr is in
\* [0, 1] and is not above its value before the step.
C30_TrStaysValid ==
    /\ track.Tr \in 0..10000
    /\ track.Tr <= track.before

\* a call at 253 nm whose point at 10 km had an extinction above the
\* majorant, the ground-level extinction: the factor was negative and Tr is
\* below 0
C30_Witness ==
    /\ track.phase = "loop"
    /\ track.wl = 253
    /\ track.majorant > 0
    /\ track.majorant = get_extinction(track.atmosphere, 0, track.wl)
    /\ track.extinction > track.majorant
    /\ track.before > 0
    /\ track.Tr < 0

====
